---------------------------- MODULE Spec2Model ----------------------------
(***************************************************************************)
(* Fresnel lens mesh generators of piotrcurious/fresnel_generator.         *)
(*                                                                         *)
(*   prog = "prism2volume" : src/new/prism2volume.py, the cartesian solid  *)
(*                           STL script (a straight-line script);          *)
(*   prog = "blender"      : create_fresnel_lens of                        *)
(*                           src/new/prism2volume4blender.py (the copy in  *)
(*                           src/new/blender/on_earth.py is the same code).*)
(*   prog = "radial2"      : src/new/radial2.py, the polar STL script;     *)
(*   prog = "octagonal_ring": src/octagonal_ring.py, rings of prisms;      *)
(*   prog = "prism1"       : src/new/prism1.py, a grid of square prisms;   *)
(*   prog = "solid_prism"  : src/solid_prism.py, prisms of several facets; *)
(*   prog = "prism2"       : src/prism2.py, a row of prisms.               *)
(*                                                                         *)
(* Floating-point numbers are modelled as exact rationals [n, d] in lowest *)
(* terms (d > 0), with d = 0 for the non-finite results of a division by   *)
(* zero.  Lengths are counted in units of 0.5e-9 of the program's length   *)
(* unit, so that the literal 1e-9 added to or compared with a length is 2; *)
(* the refractive index is dimensionless and kept as the exact rational.   *)
(***************************************************************************)
EXTENDS Integers, Sequences, FiniteSets, TLC

(***************************************************************************)
(* Bounds of the model.                                                    *)
(***************************************************************************)
\* Largest number of divisions per side that is enumerated.
MaxDiv == 3
\* Lens widths and heights enumerated are 0 and 2*k for k in 1..MaxSide.
MaxSide == 2
\* Largest number of rings enumerated for the polar generators.
MaxRings == 3
\* Largest number of angular segments (sides) per ring enumerated.
MaxSeg == 4
\* Largest number of facets per prism enumerated for solid_prism.py.
MaxFacets == 3

(***************************************************************************)
(* Exact rational arithmetic standing for the float arithmetic.            *)
(***************************************************************************)
Abs(x) == IF x < 0 THEN -x ELSE x

Sgn(x) == IF x < 0 THEN -1 ELSE IF x > 0 THEN 1 ELSE 0

RECURSIVE GCD(_, _)
GCD(a, b) == IF b = 0 THEN a ELSE GCD(b, a % b)

\* n/d in lowest terms with a positive denominator (d # 0).
Rat(n, d) ==
    LET g == GCD(Abs(n), Abs(d))
    IN  IF d < 0 THEN [n |-> (-n) \div g, d |-> (-d) \div g]
                 ELSE [n |-> n \div g, d |-> d \div g]

RNum(k) == [n |-> k, d |-> 1]

\* nan; +inf and -inf are [n |-> 1, d |-> 0] and [n |-> -1, d |-> 0].
NaN == [n |-> 0, d |-> 0]

RAdd(a, b) == IF a.d = 0 \/ b.d = 0 THEN NaN
              ELSE Rat(a.n * b.d + b.n * a.d, a.d * b.d)

RNeg(a) == [n |-> -a.n, d |-> a.d]

RSub(a, b) == RAdd(a, RNeg(b))

RMul(a, b) == IF a.d = 0 \/ b.d = 0 THEN NaN
              ELSE Rat(a.n * b.n, a.d * b.d)

\* numpy array division: x / 0 is +-inf, 0 / 0 is nan (a warning, no exception).
RDiv(a, b) == IF a.d = 0 \/ b.d = 0 THEN NaN
              ELSE IF b.n = 0 THEN [n |-> Sgn(a.n), d |-> 0]
              ELSE Rat(a.n * b.d, a.d * b.n)

RAbs(a) == [n |-> Abs(a.n), d |-> a.d]

\* Comparisons; any comparison with a non-finite operand is false here.
RLt(a, b) == a.d # 0 /\ b.d # 0 /\ a.n * b.d < b.n * a.d

RLe(a, b) == a.d # 0 /\ b.d # 0 /\ a.n * b.d <= b.n * a.d

RFloor(a) == a.n \div a.d

\* RMod truncating the quotient toward zero (C fmod): the sign of the dividend.
RMod_Truncated(a, m) ==
    IF a.d = 0 \/ m.d = 0 \/ m.n = 0 THEN NaN
    ELSE LET q == RDiv(a, m)
             t == IF q.n >= 0 THEN q.n \div q.d ELSE -((-q.n) \div q.d)
         IN  RSub(a, RMul(RNum(t), m))

\* Python / numpy float %: a - floor(a / m) * m, the sign of the divisor.
RMod(a, m) == IF a.d = 0 \/ m.d = 0 \/ m.n = 0 THEN NaN
              ELSE RSub(a, RMul(RNum(RFloor(RDiv(a, m))), m))

RZero == RNum(0)


(***************************************************************************)
(* State.                                                                  *)
(***************************************************************************)
VARIABLES
    prog,              \* which program runs
    pc,                \* the statement the run has reached
    args,              \* create_fresnel_lens: the call's arguments
    width, height, focal_length, refractive_index, groove_depth, thickness,
    n_prisms,          \* prism2volume.py: divisions per side
    x_coords, y_coords,\* np.linspace results, indexed from 0
    ideal_z, fresnel_z,\* height fields, indexed [j][i]
    num_triangles,     \* prism2volume.py: pre-computed triangle count
    triangles,         \* prism2volume.py: the triangle buffer, indexed from 0
    t_idx,             \* prism2volume.py: running triangle index
    i, j,              \* loop counters
    stl_file,          \* prism2volume.py: the saved STL file
    out,               \* what was printed, in order
    err,               \* message of the exception that ended the run, or ""
    bm_verts,          \* create_fresnel_lens: bm.verts, the coordinates by handle
    bm_faces,          \* create_fresnel_lens: bm.faces, triples of vertex handles
    top_verts, back_verts, \* create_fresnel_lens: vertex handles, indexed [j][i]
    mesh_data,         \* create_fresnel_lens: the mesh datablocks created
    scene,             \* create_fresnel_lens: objects linked to the collection
    diameter,          \* radial2.py, octagonal_ring.py: lens diameter
    n_rings,           \* radial2.py, octagonal_ring.py: number of rings
    n_segments,        \* radial2.py: angular segments per ring
    max_depth,         \* radial2.py: groove depth of the sawtooth
    radius,            \* radial2.py: diameter / 2; octagonal_ring.py: ring radii
    ring_width,        \* radial2.py: radius / n_rings
    r, s,              \* radial2.py: ring and segment loop counters
    n_sides,           \* octagonal_ring.py: prisms per ring
    angle,             \* octagonal_ring.py: np.arctan(diameter / (2 * focal_length))
    vertices, faces,   \* octagonal_ring.py: the vertex and the face list
    fresnel_lens,      \* octagonal_ring.py: vectors of the mesh object
    prism_width,       \* prism1.py: width / n_prisms
    prism_height,      \* prism1.py: height / n_prisms; prism2.py: a parameter
    n_facets,          \* solid_prism.py: facets per prism
    gamma,             \* solid_prism.py: the facet angle
    mesh,              \* solid_prism.py: vectors of the pre-sized mesh
    prism_pitch,       \* prism2.py: distance between prisms
    prism_angle,       \* prism2.py: prism angle in degrees
    num_prisms,        \* prism2.py: int(np.ceil(diameter / prism_pitch))
    prism_centers,     \* prism2.py: np.linspace of the prism centers
    prism_slopes,      \* prism2.py: one slope per center
    prism_vertices,    \* prism2.py: the vertex list, then the vertex array
    prism_faces,       \* prism2.py: the face list, then the face array
    prism_mesh         \* prism2.py: vectors of the mesh object

params == <<width, height, focal_length, refractive_index, groove_depth,
            thickness, n_prisms>>
fields == <<x_coords, y_coords, ideal_z, fresnel_z>>
buffer == <<num_triangles, triangles, t_idx>>
bmesh == <<bm_verts, bm_faces, top_verts, back_verts>>
blend == <<mesh_data, scene>>
polar == <<diameter, n_rings, n_segments, max_depth, radius, ring_width, r, s,
           n_sides, angle, vertices, faces, fresnel_lens>>
prisms == <<prism_width, prism_height, n_facets, gamma, mesh, prism_pitch,
            prism_angle, num_prisms, prism_centers, prism_slopes,
            prism_vertices, prism_faces, prism_mesh>>
vars == <<prog, pc, args, params, fields, buffer, i, j, stl_file, out, err,
          bmesh, blend, polar, prisms>>

(***************************************************************************)
(* Program constants.                                                      *)
(***************************************************************************)
\* The literal 1e-9 as a length (see the module comment for the unit).
eps == RNum(2)

\* The literal 1e-9 compared with the dimensionless refractive_index - 1.0.
eps_index == Rat(1, 1000000000)

\* scale_factor = 0.001 (mm to Blender units).
scale_factor == Rat(1, 1000)

output_filename == "fresnel_lens_radial_volume.stl"

\* np.zeros(..., dtype=mesh.Mesh.dtype): one all-zero record of 'vectors'.
ZeroTriangle == << <<RZero, RZero, RZero>>, <<RZero, RZero, RZero>>,
                   <<RZero, RZero, RZero>> >>

NoFile == [written |-> FALSE, name |-> "", count |-> 0, vectors |-> <<>>]

(***************************************************************************)
(* Inputs enumerated.                                                      *)
(***************************************************************************)
Sides == {RNum(0)} \cup {RNum(2 * k) : k \in 1..MaxSide}

FocalLengths == {RNum(-3), RNum(0), RNum(2)}

RefractiveIndices == {RNum(1), Rat(3, 2)}

GrooveDepths == {RNum(0), RNum(1)}

Thicknesses == {RNum(0), RNum(3)}

(***************************************************************************)
(* numpy helpers.                                                          *)
(***************************************************************************)
\* Linspace with endpoint=False: the step is (b - a) / num.
Linspace_NoEndpoint(a, b, num) ==
    [k \in 0..(num - 1) |->
        IF num = 1 THEN a
        ELSE RAdd(a, RDiv(RMul(RNum(k), RSub(b, a)), RNum(num)))]

\* np.linspace(a, b, num) for num >= 0, indexed from 0 (num = 1 gives [a]).
Linspace(a, b, num) ==
    [k \in 0..(num - 1) |->
        IF num = 1 THEN a
        ELSE RAdd(a, RDiv(RMul(RNum(k), RSub(b, a)), RNum(num - 1)))]

\* RadiusSq without the square of yy.
RadiusSq_LinearY(xs, ys) ==
    [jj \in DOMAIN ys |-> [ii \in DOMAIN xs |->
        RAdd(RMul(xs[ii], xs[ii]), ys[jj])]]

\* radius_sq = xx**2 + yy**2 with xx[j, i] = xs[i], yy[j, i] = ys[j] (np.meshgrid).
RadiusSq(xs, ys) ==
    [jj \in DOMAIN ys |-> [ii \in DOMAIN xs |->
        RAdd(RMul(xs[ii], xs[ii]), RMul(ys[jj], ys[jj]))]]

\* elementwise array / scalar and array % scalar
ArrayDiv(a, c) == [jj \in DOMAIN a |-> [ii \in DOMAIN a[jj] |-> RDiv(a[jj][ii], c)]]

ArrayMod(a, c) == [jj \in DOMAIN a |-> [ii \in DOMAIN a[jj] |-> RMod(a[jj][ii], c)]]

ZerosLike(a) == [jj \in DOMAIN a |-> [ii \in DOMAIN a[jj] |-> RZero]]

(***************************************************************************)
(* prism2volume.py                                                         *)
(***************************************************************************)
\* ValidationError without its last check (thickness).
ValidationError_NoThickness ==
    IF n_prisms <= 0 THEN "n_prisms must be positive"
    ELSE IF RLe(width, RZero) \/ RLe(height, RZero)
        THEN "width and height must be positive"
    ELSE IF focal_length = RZero THEN "focal_length cannot be zero"
    ELSE IF RLe(refractive_index, RNum(1))
        THEN "refractive_index must be greater than 1.0"
    ELSE IF RLe(groove_depth, RZero) THEN "groove_depth must be positive"
    ELSE ""

\* ValidationError without the focal_length check.
ValidationError_NoFocal ==
    IF n_prisms <= 0 THEN "n_prisms must be positive"
    ELSE IF RLe(width, RZero) \/ RLe(height, RZero)
        THEN "width and height must be positive"
    ELSE IF RLe(refractive_index, RNum(1))
        THEN "refractive_index must be greater than 1.0"
    ELSE IF RLe(groove_depth, RZero) THEN "groove_depth must be positive"
    ELSE IF RLe(thickness, RZero) THEN "thickness must be positive"
    ELSE ""

\* Input validation: the message of the first ValueError raised, "" if none.
ValidationError ==
    IF n_prisms <= 0 THEN "n_prisms must be positive"
    ELSE IF RLe(width, RZero) \/ RLe(height, RZero)
        THEN "width and height must be positive"
    ELSE IF focal_length = RZero THEN "focal_length cannot be zero"
    ELSE IF RLe(refractive_index, RNum(1))
        THEN "refractive_index must be greater than 1.0"
    ELSE IF RLe(groove_depth, RZero) THEN "groove_depth must be positive"
    ELSE IF RLe(thickness, RZero) THEN "thickness must be positive"
    ELSE ""

Validate ==
    /\ prog = "prism2volume" /\ pc = "validate"
    /\ IF ValidationError # ""
       THEN pc' = "error" /\ err' = ValidationError
       ELSE pc' = "grid" /\ err' = err
    /\ UNCHANGED <<prisms, polar, prog, args, params, fields, buffer, i, j, stl_file, out,
                   bmesh, blend>>

\* NumVertices counting cells instead of vertices.
NumVertices_PerCell(d) == d

\* num_vertices_x, num_vertices_y
NumVertices(d) == d + 1

Grid ==
    /\ prog = "prism2volume" /\ pc = "grid"
    /\ x_coords' = Linspace(RDiv(RNeg(width), RNum(2)), RDiv(width, RNum(2)),
                            NumVertices(n_prisms))
    /\ y_coords' = Linspace(RDiv(RNeg(height), RNum(2)), RDiv(height, RNum(2)),
                            NumVertices(n_prisms))
    /\ pc' = "height"
    /\ UNCHANGED <<prisms, polar, prog, args, params, ideal_z, fresnel_z, buffer, i, j,
                   stl_file, out, err, bmesh, blend>>

\* ideal_z = radius_sq / (2 * focal_length * (refractive_index - 1.0))
IdealZ(xs, ys, f, n_minus_1) ==
    ArrayDiv(RadiusSq(xs, ys), RMul(RMul(RNum(2), f), n_minus_1))

\* fresnel_z = ideal_z % (groove_depth + 1e-9)
FresnelZ(z, g) == ArrayMod(z, RAdd(g, eps))

Height ==
    /\ prog = "prism2volume" /\ pc = "height"
    /\ ideal_z' = IdealZ(x_coords, y_coords, focal_length,
                         RSub(refractive_index, RNum(1)))
    /\ fresnel_z' = FresnelZ(ideal_z', groove_depth)
    /\ pc' = "alloc"
    /\ UNCHANGED <<prisms, polar, prog, args, params, x_coords, y_coords, buffer, i, j,
                   stl_file, out, err, bmesh, blend>>

\* NumTriangles counting one triangle per wall segment instead of two.
NumTriangles_OnePerSegment(d) == (d * d * 4) + (4 * d)

\* num_triangles = (n_prisms * n_prisms * 4) + (4 * n_prisms * 2)
NumTriangles(d) == (d * d * 4) + (4 * d * 2)

Alloc ==
    /\ prog = "prism2volume" /\ pc = "alloc"
    /\ num_triangles' = NumTriangles(n_prisms)
    /\ triangles' = [k \in 0..(NumTriangles(n_prisms) - 1) |-> ZeroTriangle]
    /\ t_idx' = 0
    /\ i' = 0 /\ j' = 0
    /\ pc' = "top"
    /\ UNCHANGED <<prisms, polar, prog, args, params, fields, stl_file, out, err, bmesh, blend>>

(***************************************************************************)
(* The triangles of one grid cell and of one wall segment.  T and B give   *)
(* the top and the back vertex of sample [j][i]: coordinate triples in     *)
(* prism2volume.py, BMVert handles in create_fresnel_lens, which emits the *)
(* same vertex orders.                                                     *)
(***************************************************************************)
\* TopTriangles in the reversed order of the back plane.
TopTriangles_Reversed(T, jj, ii) ==
    LET v1 == T[jj][ii]
        v2 == T[jj][ii + 1]
        v3 == T[jj + 1][ii + 1]
        v4 == T[jj + 1][ii]
    IN  << <<v1, v3, v2>>, <<v1, v4, v3>> >>

\* Top surface: (v1, v2, v3) and (v1, v3, v4).
TopTriangles(T, jj, ii) ==
    LET v1 == T[jj][ii]
        v2 == T[jj][ii + 1]
        v3 == T[jj + 1][ii + 1]
        v4 == T[jj + 1][ii]
    IN  << <<v1, v2, v3>>, <<v1, v3, v4>> >>

\* BackTriangles in the unreversed order of the top surface.
BackTriangles_Unreversed(B, jj, ii) ==
    LET v1b == B[jj][ii]
        v2b == B[jj][ii + 1]
        v3b == B[jj + 1][ii + 1]
        v4b == B[jj + 1][ii]
    IN  << <<v1b, v2b, v3b>>, <<v1b, v3b, v4b>> >>

\* Back plane: (v1b, v3b, v2b) and (v1b, v4b, v3b).
BackTriangles(B, jj, ii) ==
    LET v1b == B[jj][ii]
        v2b == B[jj][ii + 1]
        v3b == B[jj + 1][ii + 1]
        v4b == B[jj + 1][ii]
    IN  << <<v1b, v3b, v2b>>, <<v1b, v4b, v3b>> >>

\* Bottom edge (j = 0): (v1b, v2b, v2t) and (v1b, v2t, v1t).
BottomEdgeTriangles(T, B, ii) ==
    LET v1t == T[0][ii]
        v2t == T[0][ii + 1]
        v1b == B[0][ii]
        v2b == B[0][ii + 1]
    IN  << <<v1b, v2b, v2t>>, <<v1b, v2t, v1t>> >>

\* Top edge (j = y_top_idx): (v4b, v3b, v3t) and (v4b, v3t, v4t).
TopEdgeTriangles(T, B, ii, y_top_idx) ==
    LET v4t == T[y_top_idx][ii]
        v3t == T[y_top_idx][ii + 1]
        v4b == B[y_top_idx][ii]
        v3b == B[y_top_idx][ii + 1]
    IN  << <<v4b, v3b, v3t>>, <<v4b, v3t, v4t>> >>

\* Left edge (i = 0): (v1b, v4b, v4t) and (v1b, v4t, v1t).
LeftEdgeTriangles(T, B, jj) ==
    LET v1t == T[jj][0]
        v4t == T[jj + 1][0]
        v1b == B[jj][0]
        v4b == B[jj + 1][0]
    IN  << <<v1b, v4b, v4t>>, <<v1b, v4t, v1t>> >>

\* Right edge (i = x_right_idx): (v2b, v3b, v3t) and (v2b, v3t, v2t).
RightEdgeTriangles(T, B, jj, x_right_idx) ==
    LET v2t == T[jj][x_right_idx]
        v3t == T[jj + 1][x_right_idx]
        v2b == B[jj][x_right_idx]
        v3b == B[jj + 1][x_right_idx]
    IN  << <<v2b, v3b, v3t>>, <<v2b, v3t, v2t>> >>

(***************************************************************************)
(* prism2volume.py: mesh generation.                                       *)
(***************************************************************************)
back_z == RNeg(thickness)

\* np.array([xx[j, i], yy[j, i], fresnel_z[j, i]]) for every sample
TopArray == [jj \in DOMAIN y_coords |-> [ii \in DOMAIN x_coords |->
                <<x_coords[ii], y_coords[jj], fresnel_z[jj][ii]>>]]

\* np.array([xx[j, i], yy[j, i], back_z]) for every sample
BackArray == [jj \in DOMAIN y_coords |-> [ii \in DOMAIN x_coords |->
                <<x_coords[ii], y_coords[jj], back_z>>]]

\* triangles['vectors'][t_idx] = tri; t_idx += 1 (IndexError when out of range)
Store(st, tri) ==
    IF st.ok /\ st.idx \in DOMAIN st.buf
    THEN [buf |-> [st.buf EXCEPT ![st.idx] = tri], idx |-> st.idx + 1, ok |-> TRUE]
    ELSE [st EXCEPT !.ok = FALSE]

\* One loop body: the two stores, then the loop's next position.
Emit(pair, next_pc, next_i, next_j) ==
    LET st == Store(Store([buf |-> triangles, idx |-> t_idx, ok |-> TRUE],
                          pair[1]), pair[2])
    IN  /\ triangles' = st.buf
        /\ t_idx' = st.idx
        /\ IF st.ok
           THEN pc' = next_pc /\ i' = next_i /\ j' = next_j /\ err' = err
           ELSE pc' = "error" /\ err' = "IndexError" /\ UNCHANGED <<i, j>>
        /\ UNCHANGED <<prisms, polar, prog, args, params, fields, num_triangles, stl_file,
                       out, bmesh, blend>>

\* for i in range(n_prisms): for j in range(n_prisms):
TopSurface ==
    /\ prog = "prism2volume" /\ pc = "top"
    /\ LET pair == TopTriangles(TopArray, j, i)
       IN  IF j + 1 < n_prisms THEN Emit(pair, "top", i, j + 1)
           ELSE IF i + 1 < n_prisms THEN Emit(pair, "top", i + 1, 0)
           ELSE Emit(pair, "back", 0, 0)

BackPlane ==
    /\ prog = "prism2volume" /\ pc = "back"
    /\ LET pair == BackTriangles(BackArray, j, i)
       IN  IF j + 1 < n_prisms THEN Emit(pair, "back", i, j + 1)
           ELSE IF i + 1 < n_prisms THEN Emit(pair, "back", i + 1, 0)
           ELSE Emit(pair, "bottom_edge", 0, 0)

\* for i in range(n_prisms):
BottomEdge ==
    /\ prog = "prism2volume" /\ pc = "bottom_edge"
    /\ LET pair == BottomEdgeTriangles(TopArray, BackArray, i)
       IN  IF i + 1 < n_prisms THEN Emit(pair, "bottom_edge", i + 1, j)
           ELSE Emit(pair, "top_edge", 0, j)

TopEdge ==
    /\ prog = "prism2volume" /\ pc = "top_edge"
    /\ LET pair == TopEdgeTriangles(TopArray, BackArray, i, n_prisms)
       IN  IF i + 1 < n_prisms THEN Emit(pair, "top_edge", i + 1, j)
           ELSE Emit(pair, "left_edge", i, 0)

\* for j in range(n_prisms):
LeftEdge ==
    /\ prog = "prism2volume" /\ pc = "left_edge"
    /\ LET pair == LeftEdgeTriangles(TopArray, BackArray, j)
       IN  IF j + 1 < n_prisms THEN Emit(pair, "left_edge", i, j + 1)
           ELSE Emit(pair, "right_edge", i, 0)

RightEdge ==
    /\ prog = "prism2volume" /\ pc = "right_edge"
    /\ LET pair == RightEdgeTriangles(TopArray, BackArray, j, n_prisms)
       IN  IF j + 1 < n_prisms THEN Emit(pair, "right_edge", i, j + 1)
           ELSE Emit(pair, "save", i, j)

\* fresnel_mesh = mesh.Mesh(triangles.copy()); fresnel_mesh.save(output_filename)
Save ==
    /\ prog = "prism2volume" /\ pc = "save"
    /\ stl_file' = [written |-> TRUE, name |-> output_filename,
                    count |-> num_triangles, vectors |-> triangles]
    /\ pc' = "report"
    /\ UNCHANGED <<prisms, polar, prog, args, params, fields, buffer, i, j, out, err, bmesh,
                   blend>>

\* the print calls up to "Total triangles: {t_idx}"
Report ==
    /\ prog = "prism2volume" /\ pc = "report"
    /\ out' = out \o <<"Generated Radial Fresnel lens with volume saved",
                       "Total triangles">>
    /\ pc' = "check"
    /\ UNCHANGED <<prisms, polar, prog, args, params, fields, buffer, i, j, stl_file, err,
                   bmesh, blend>>

\* if t_idx != num_triangles: print("Warning: ...")
CheckCount ==
    /\ prog = "prism2volume" /\ pc = "check"
    /\ out' = IF t_idx # num_triangles
              THEN Append(out, "Warning: Actual triangles differs from calculated")
              ELSE out
    /\ pc' = "done"
    /\ UNCHANGED <<prisms, polar, prog, args, params, fields, buffer, i, j, stl_file, err,
                   bmesh, blend>>

\* The variables of the polar generators while a cartesian generator runs.
PolarIdle ==
    /\ diameter = RZero /\ n_rings = 0 /\ n_segments = 0 /\ max_depth = RZero
    /\ radius = RZero /\ ring_width = RZero /\ r = 0 /\ s = 0
    /\ n_sides = 0 /\ angle = RZero
    /\ vertices = <<>> /\ faces = <<>> /\ fresnel_lens = <<>>

\* The variables of the prism scripts while another generator runs.
PrismsIdle ==
    /\ prism_width = RZero /\ prism_height = RZero
    /\ n_facets = 0 /\ gamma = RZero /\ mesh = <<>>
    /\ prism_pitch = RZero /\ prism_angle = RZero /\ num_prisms = 0
    /\ prism_centers = <<>> /\ prism_slopes = <<>>
    /\ prism_vertices = <<>> /\ prism_faces = <<>> /\ prism_mesh = <<>>

InitVolume ==
    /\ prog = "prism2volume" /\ pc = "validate"
    /\ width \in Sides /\ height \in Sides
    /\ focal_length \in FocalLengths
    /\ refractive_index \in RefractiveIndices
    /\ groove_depth \in GrooveDepths
    /\ thickness \in Thicknesses
    /\ n_prisms \in 0..MaxDiv
    /\ args = <<>>
    /\ x_coords = <<>> /\ y_coords = <<>> /\ ideal_z = <<>> /\ fresnel_z = <<>>
    /\ num_triangles = 0 /\ triangles = <<>> /\ t_idx = 0
    /\ i = 0 /\ j = 0
    /\ stl_file = NoFile /\ out = <<>> /\ err = ""
    /\ bm_verts = <<>> /\ bm_faces = <<>> /\ top_verts = <<>> /\ back_verts = <<>>
    /\ mesh_data = {} /\ scene = {}
    /\ PrismsIdle
    /\ PolarIdle

NextVolume ==
    \/ Validate \/ Grid \/ Height \/ Alloc
    \/ TopSurface \/ BackPlane
    \/ BottomEdge \/ TopEdge \/ LeftEdge \/ RightEdge
    \/ Save \/ Report \/ CheckCount

SpecVolume == InitVolume /\ [][NextVolume]_vars

(***************************************************************************)
(* create_fresnel_lens (prism2volume4blender.py, blender/on_earth.py)      *)
(***************************************************************************)
lens_name == "FresnelLens"

SidesMM == {RMul(side, RNum(1000)) : side \in Sides}

LensArgs ==
    [width_mm : SidesMM,
     height_mm : {RNum(0), RNum(2000)},
     focal_length_mm : {RNum(-3000), RNum(0), RNum(1000)},
     n_divisions : (-2)..MaxDiv,
     refractive_index : {RNum(1), Rat(2000000001, 2000000000), Rat(3, 2)},
     groove_depth_mm : {RNum(0), RNum(2000), RNum(3000)},
     thickness_mm : {RNum(0), RNum(3000)}]

\* width = width_mm * scale_factor, ...
Lens_Scale ==
    /\ prog = "blender" /\ pc = "scale"
    /\ width' = RMul(args.width_mm, scale_factor)
    /\ height' = RMul(args.height_mm, scale_factor)
    /\ focal_length' = RMul(args.focal_length_mm, scale_factor)
    /\ groove_depth' = RMul(args.groove_depth_mm, scale_factor)
    /\ thickness' = RMul(args.thickness_mm, scale_factor)
    /\ out' = Append(out, "Generating Fresnel Lens...")
    /\ pc' = "grid"
    /\ UNCHANGED <<prisms, polar, prog, args, refractive_index, n_prisms, fields, buffer, i, j,
                   stl_file, err, bmesh, blend>>

\* np.linspace raises ValueError for a negative number of samples.
Lens_Grid ==
    /\ prog = "blender" /\ pc = "grid"
    /\ IF NumVertices(args.n_divisions) < 0
       THEN /\ pc' = "error"
            /\ err' = "Number of samples must be non-negative"
            /\ UNCHANGED <<x_coords, y_coords>>
       ELSE /\ x_coords' = Linspace(RDiv(RNeg(width), RNum(2)),
                                    RDiv(width, RNum(2)),
                                    NumVertices(args.n_divisions))
            /\ y_coords' = Linspace(RDiv(RNeg(height), RNum(2)),
                                    RDiv(height, RNum(2)),
                                    NumVertices(args.n_divisions))
            /\ pc' = "height"
            /\ err' = err
    /\ UNCHANGED <<prisms, polar, prog, args, params, ideal_z, fresnel_z, buffer, i, j,
                   stl_file, out, bmesh, blend>>

\* FlatSurfaceWarning testing focal_length == 0 instead of abs(...) < 1e-9.
FlatSurfaceWarning_ExactZero(f, ri) ==
    IF f = RZero
    THEN "Warning: Focal length is near zero. Generating flat surface."
    ELSE IF RLt(RAbs(RSub(ri, RNum(1))), eps_index)
    THEN "Warning: Refractive index is near 1.0. Generating flat surface."
    ELSE ""

\* The warning of the flat-surface branch taken, "" when the division is done.
FlatSurfaceWarning(f, ri) ==
    IF RLt(RAbs(f), eps)
    THEN "Warning: Focal length is near zero. Generating flat surface."
    ELSE IF RLt(RAbs(RSub(ri, RNum(1))), eps_index)
    THEN "Warning: Refractive index is near 1.0. Generating flat surface."
    ELSE ""

LensIdealZ(xs, ys, f, ri) ==
    IF FlatSurfaceWarning(f, ri) # ""
    THEN ZerosLike(RadiusSq(xs, ys))
    ELSE IdealZ(xs, ys, f, RSub(ri, RNum(1)))

\* LensFresnelZ applying the modulo whatever the groove depth.
LensFresnelZ_AlwaysModulo(z, g) == FresnelZ(z, g)

\* if groove_depth > 1e-9: fresnel_z = ideal_z % (groove_depth + 1e-9)
\* else: fresnel_z = ideal_z
LensFresnelZ(z, g) == IF RLt(eps, g) THEN FresnelZ(z, g) ELSE z

GrooveWarning(g) ==
    IF RLt(eps, g) THEN ""
    ELSE "Warning: Groove depth is near zero. Using ideal surface."

Printed(msg) == IF msg = "" THEN <<>> ELSE <<msg>>

Lens_Height ==
    /\ prog = "blender" /\ pc = "height"
    /\ ideal_z' = LensIdealZ(x_coords, y_coords, focal_length,
                             args.refractive_index)
    /\ fresnel_z' = LensFresnelZ(ideal_z', groove_depth)
    /\ out' = out \o Printed(FlatSurfaceWarning(focal_length,
                                                 args.refractive_index))
                  \o Printed(GrooveWarning(groove_depth))
    /\ pc' = "verts"
    /\ UNCHANGED <<prisms, polar, prog, args, params, x_coords, y_coords, buffer, i, j,
                   stl_file, err, bmesh, blend>>

\* Handles of the vertices of sample [j][i]: bm.verts.new is called for the
\* top vertex and then for the back vertex, j outer and i inner.
TopHandle(jj, ii, nx) == 2 * (jj * nx + ii) + 1

BackHandle(jj, ii, nx) == 2 * (jj * nx + ii) + 2

Lens_Verts ==
    /\ prog = "blender" /\ pc = "verts"
    /\ LET nx == NumVertices(args.n_divisions)
           ny == NumVertices(args.n_divisions)
       IN  /\ top_verts' = [jj \in 0..(ny - 1) |-> [ii \in 0..(nx - 1) |->
                               TopHandle(jj, ii, nx)]]
           /\ back_verts' = [jj \in 0..(ny - 1) |-> [ii \in 0..(nx - 1) |->
                               BackHandle(jj, ii, nx)]]
           /\ bm_verts' = [k \in 1..(2 * nx * ny) |->
                 LET jj == ((k - 1) \div 2) \div nx
                     ii == ((k - 1) \div 2) % nx
                 IN  IF k % 2 = 1
                     THEN <<x_coords[ii], y_coords[jj], fresnel_z[jj][ii]>>
                     ELSE <<x_coords[ii], y_coords[jj], back_z>>]
    /\ bm_faces' = <<>>
    /\ out' = out \o <<"Creating vertices...", "Creating faces...">>
    /\ i' = 0 /\ j' = 0
    \* every face loop is over range(n_divisions)
    /\ pc' = IF args.n_divisions > 0 THEN "top" ELSE "finalize"
    /\ UNCHANGED <<prisms, polar, prog, args, params, fields, buffer, stl_file, err, blend>>

\* bm.faces.new(verts): ValueError when a vertex repeats or the face exists.
FaceNew(st, f) ==
    IF /\ st.ok
       /\ Cardinality({f[1], f[2], f[3]}) = 3
       /\ \A k \in 1..Len(st.faces) :
             {st.faces[k][1], st.faces[k][2], st.faces[k][3]} # {f[1], f[2], f[3]}
    THEN [faces |-> Append(st.faces, f), ok |-> TRUE]
    ELSE [st EXCEPT !.ok = FALSE]

LensEmit(pair, next_pc, next_i, next_j) ==
    LET st == FaceNew(FaceNew([faces |-> bm_faces, ok |-> TRUE], pair[1]),
                      pair[2])
    IN  /\ bm_faces' = st.faces
        /\ IF st.ok
           THEN pc' = next_pc /\ i' = next_i /\ j' = next_j /\ err' = err
           ELSE pc' = "error" /\ err' = "face already exists" /\ UNCHANGED <<i, j>>
        /\ UNCHANGED <<prisms, polar, prog, args, params, fields, buffer, stl_file, out,
                       bm_verts, top_verts, back_verts, blend>>

\* for j in range(n_divisions): for i in range(n_divisions):
Lens_TopSurface ==
    /\ prog = "blender" /\ pc = "top"
    /\ LET pair == TopTriangles(top_verts, j, i)
       IN  IF i + 1 < args.n_divisions THEN LensEmit(pair, "top", i + 1, j)
           ELSE IF j + 1 < args.n_divisions THEN LensEmit(pair, "top", 0, j + 1)
           ELSE LensEmit(pair, "back", 0, 0)

Lens_BackSurface ==
    /\ prog = "blender" /\ pc = "back"
    /\ LET pair == BackTriangles(back_verts, j, i)
       IN  IF i + 1 < args.n_divisions THEN LensEmit(pair, "back", i + 1, j)
           ELSE IF j + 1 < args.n_divisions THEN LensEmit(pair, "back", 0, j + 1)
           ELSE LensEmit(pair, "bottom_edge", 0, 0)

Lens_BottomEdge ==
    /\ prog = "blender" /\ pc = "bottom_edge"
    /\ LET pair == BottomEdgeTriangles(top_verts, back_verts, i)
       IN  IF i + 1 < args.n_divisions
           THEN LensEmit(pair, "bottom_edge", i + 1, j)
           ELSE LensEmit(pair, "top_edge", 0, j)

Lens_TopEdge ==
    /\ prog = "blender" /\ pc = "top_edge"
    /\ LET pair == TopEdgeTriangles(top_verts, back_verts, i, args.n_divisions)
       IN  IF i + 1 < args.n_divisions
           THEN LensEmit(pair, "top_edge", i + 1, j)
           ELSE LensEmit(pair, "left_edge", i, 0)

Lens_LeftEdge ==
    /\ prog = "blender" /\ pc = "left_edge"
    /\ LET pair == LeftEdgeTriangles(top_verts, back_verts, j)
       IN  IF j + 1 < args.n_divisions
           THEN LensEmit(pair, "left_edge", i, j + 1)
           ELSE LensEmit(pair, "right_edge", i, 0)

Lens_RightEdge ==
    /\ prog = "blender" /\ pc = "right_edge"
    /\ LET pair == RightEdgeTriangles(top_verts, back_verts, j, args.n_divisions)
       IN  IF j + 1 < args.n_divisions
           THEN LensEmit(pair, "right_edge", i, j + 1)
           ELSE LensEmit(pair, "finalize", i, j)

\* bm.normal_update(); mesh_data = bpy.data.meshes.new(lens_name + "Mesh");
\* bm.to_mesh(mesh_data); bm.free()
Lens_Finalize ==
    /\ prog = "blender" /\ pc = "finalize"
    /\ mesh_data' = mesh_data \cup
           {[name |-> "FresnelLensMesh", vertices |-> bm_verts,
             polygons |-> bm_faces]}
    /\ bm_verts' = <<>> /\ bm_faces' = <<>>
    /\ out' = Append(out, "Finalizing mesh...")
    /\ pc' = "link"
    /\ UNCHANGED <<prisms, polar, prog, args, params, fields, buffer, i, j, stl_file, err,
                   top_verts, back_verts, scene>>

\* lens_obj = bpy.data.objects.new(lens_name, mesh_data);
\* bpy.context.collection.objects.link(lens_obj); return lens_obj
Lens_Link ==
    /\ prog = "blender" /\ pc = "link"
    /\ scene' = scene \cup {[name |-> lens_name, data |-> "FresnelLensMesh"]}
    /\ out' = Append(out, "Lens generation complete.")
    /\ pc' = "done"
    /\ UNCHANGED <<prisms, polar, prog, args, params, fields, buffer, i, j, stl_file, err,
                   bmesh, mesh_data>>

InitBlender ==
    /\ prog = "blender" /\ pc = "scale"
    /\ args \in LensArgs
    /\ width = RZero /\ height = RZero /\ focal_length = RZero
    /\ refractive_index = RZero /\ groove_depth = RZero /\ thickness = RZero
    /\ n_prisms = 0
    /\ x_coords = <<>> /\ y_coords = <<>> /\ ideal_z = <<>> /\ fresnel_z = <<>>
    /\ num_triangles = 0 /\ triangles = <<>> /\ t_idx = 0
    /\ i = 0 /\ j = 0
    /\ stl_file = NoFile /\ out = <<>> /\ err = ""
    /\ bm_verts = <<>> /\ bm_faces = <<>> /\ top_verts = <<>> /\ back_verts = <<>>
    /\ mesh_data = {} /\ scene = {}
    /\ PrismsIdle
    /\ PolarIdle

NextBlender ==
    \/ Lens_Scale \/ Lens_Grid \/ Lens_Height \/ Lens_Verts
    \/ Lens_TopSurface \/ Lens_BackSurface
    \/ Lens_BottomEdge \/ Lens_TopEdge \/ Lens_LeftEdge \/ Lens_RightEdge
    \/ Lens_Finalize \/ Lens_Link

(***************************************************************************)
(* The cartesian generators: one run of either program.                    *)
(***************************************************************************)
Init == InitVolume \/ InitBlender

Next == NextVolume \/ NextBlender

Spec == Init /\ [][Next]_vars

(***************************************************************************)
(* radial2.py: the polar STL script.  Lengths are counted there in units   *)
(* of 0.5e-6 of the program's length unit, so that the literal 1e-6        *)
(* compared with a radius is 2.                                            *)
(*                                                                         *)
(* An angle is kept as the number of turns k/n that 2*np.pi*k/n stands     *)
(* for, and a coordinate m*np.cos(t) or m*np.sin(t) as the product itself, *)
(* except where its float value is known exactly: 0*anything is 0,         *)
(* cos(0.0) is 1.0 and sin(0.0) is 0.0, and for the float 2*np.pi          *)
(* (6.283185307179586, which is not 0.0) np.cos gives 1.0 exactly while    *)
(* np.sin gives -2.4492935982947064e-16, not 0.0.                          *)
(***************************************************************************)
\* The literal 1e-6 of calculate_height as a length.
center_eps == RNum(2)

radial_filename == "fresnel_lens_radial.stl"

Diameters == Sides

MaxDepths == {RNum(0), RNum(3)}

\* 2 * np.pi * k / n, in turns.
Angle(k, n) == Rat(k, n)

\* A coordinate whose float value is the rational v.
Exact(v) == [fn |-> "exact", m |-> v, t |-> RZero]

\* m * np.cos(t)
MulCos(m, t) ==
    IF m = RZero THEN Exact(RZero)
    ELSE IF t = RNum(0) \/ t = RNum(1) THEN Exact(m)
    ELSE [fn |-> "cos", m |-> m, t |-> t]

\* m * np.sin(t)
MulSin(m, t) ==
    IF m = RZero \/ t = RNum(0) THEN Exact(RZero)
    ELSE [fn |-> "sin", m |-> m, t |-> t]

\* np.sqrt(x**2 + y**2) for x = m*cos(t), y = m*sin(t): |m| (to the last bit).
Hypot(x, y) == RAbs(x.m)

\* Input validation: the message of the first ValueError raised, "" if none.
RadialValidationError ==
    IF n_rings <= 0 THEN "n_rings must be positive"
    ELSE IF n_segments <= 0 THEN "n_segments must be positive"
    ELSE IF RLe(diameter, RZero) THEN "diameter must be positive"
    ELSE IF RLe(focal_length, RZero)
        THEN "focal_length must be positive for a converging lens"
    ELSE IF RLe(refractive_index, RNum(1))
        THEN "refractive_index must be greater than 1.0"
    ELSE IF RLe(max_depth, RZero) THEN "max_depth must be positive"
    ELSE ""

Radial_Validate ==
    /\ prog = "radial2" /\ pc = "validate"
    /\ IF RadialValidationError # ""
       THEN pc' = "error" /\ err' = RadialValidationError
       ELSE pc' = "calc" /\ err' = err
    /\ UNCHANGED <<prisms, prog, args, params, fields, buffer, i, j, stl_file, out,
                   bmesh, blend, polar>>

\* NumRadialTriangles without the triangles of the central facet.
NumRadialTriangles_NoFan(rings, segments) == segments * 4 * rings

\* num_triangles = n_segments * 4 * n_rings + n_segments
NumRadialTriangles(rings, segments) == segments * 4 * rings + segments

\* np.array([0, 0, 0])
center == <<Exact(RZero), Exact(RZero), RZero>>

\* np.zeros(num_triangles, dtype=mesh.Mesh.dtype): one record of 'vectors'.
ZeroRadialTriangle == <<center, center, center>>

\* radius, ring_width, num_triangles, triangles, t_idx
Radial_Calc ==
    /\ prog = "radial2" /\ pc = "calc"
    /\ radius' = RDiv(diameter, RNum(2))
    /\ ring_width' = RDiv(radius', RNum(n_rings))
    /\ num_triangles' = NumRadialTriangles(n_rings, n_segments)
    /\ triangles' = [k \in 0..(num_triangles' - 1) |-> ZeroRadialTriangle]
    /\ t_idx' = 0
    /\ r' = 0 /\ s' = 0
    /\ pc' = "fan"
    /\ UNCHANGED <<prisms, prog, args, params, fields, i, j, stl_file, out, err, bmesh,
                   blend, diameter, n_rings, n_segments, max_depth, n_sides,
                   angle, vertices, faces, fresnel_lens>>

\* calculate_height(r) with phase_fraction = 1.0
calculate_height(rad) ==
    IF RLt(rad, center_eps) THEN RZero
    ELSE LET h_ideal == RDiv(RMul(rad, rad),
                             RMul(RMul(RNum(2), focal_length),
                                  RSub(refractive_index, RNum(1))))
             h_mod == RMod(h_ideal, max_depth)
         IN  RMul(h_mod, RNum(1))

\* x = m * np.cos(t); y = m * np.sin(t); z = calculate_height(np.sqrt(x**2 + y**2));
\* np.array([x, y, z])
SampleVertex(m, t) ==
    LET x == MulCos(m, t)
        y == MulSin(m, t)
    IN  <<x, y, calculate_height(Hypot(x, y))>>

\* np.array([x, y, 0]) of the same sample
BottomVertex(m, t) == <<MulCos(m, t), MulSin(m, t), RZero>>

\* The triangle of one fan segment: (center, v1, v2).
FanTriangles(ss) ==
    LET v1 == SampleVertex(ring_width, Angle(ss, n_segments))
        v2 == SampleVertex(ring_width, Angle(ss + 1, n_segments))
    IN  << <<center, v1, v2>> >>

\* The four triangles of one ring segment: the top face, then the inner
\* radial face.
RingTriangles(rr, ss) ==
    LET inner_radius == RMul(ring_width, RNum(rr + 1))
        outer_radius == RMul(ring_width, RNum(rr + 2))
        angle1 == Angle(ss, n_segments)
        angle2 == Angle(ss + 1, n_segments)
        v1_inner == SampleVertex(inner_radius, angle1)
        v2_inner == SampleVertex(inner_radius, angle2)
        v1_outer == SampleVertex(outer_radius, angle1)
        v2_outer == SampleVertex(outer_radius, angle2)
        v1_inner_bottom == BottomVertex(inner_radius, angle1)
        v2_inner_bottom == BottomVertex(inner_radius, angle2)
    IN  << <<v1_inner, v2_inner, v1_outer>>,
           <<v2_inner, v2_outer, v1_outer>>,
           <<v1_inner, v1_inner_bottom, v2_inner_bottom>>,
           <<v1_inner, v2_inner_bottom, v2_inner>> >>

RECURSIVE StoreAll(_, _)
StoreAll(st, tris) ==
    IF tris = <<>> THEN st ELSE StoreAll(Store(st, Head(tris)), Tail(tris))

\* One loop body of radial2.py: its stores, then the loop's next position.
RadialEmit(tris, next_pc, next_r, next_s) ==
    LET st == StoreAll([buf |-> triangles, idx |-> t_idx, ok |-> TRUE], tris)
    IN  /\ triangles' = st.buf
        /\ t_idx' = st.idx
        /\ IF st.ok
           THEN pc' = next_pc /\ r' = next_r /\ s' = next_s /\ err' = err
           ELSE pc' = "error" /\ err' = "IndexError" /\ UNCHANGED <<r, s>>
        /\ UNCHANGED <<prisms, prog, args, params, fields, num_triangles, i, j,
                       stl_file, out, bmesh, blend, diameter, n_rings,
                       n_segments, max_depth, radius, ring_width, n_sides,
                       angle, vertices, faces, fresnel_lens>>

\* for s in range(n_segments): the central facet
CentralFacet ==
    /\ prog = "radial2" /\ pc = "fan"
    /\ IF s + 1 < n_segments THEN RadialEmit(FanTriangles(s), "fan", r, s + 1)
       ELSE RadialEmit(FanTriangles(s), "rings", 0, 0)

\* for r in range(n_rings): for s in range(n_segments):
Rings ==
    /\ prog = "radial2" /\ pc = "rings"
    /\ LET tris == RingTriangles(r, s)
       IN  IF s + 1 < n_segments THEN RadialEmit(tris, "rings", r, s + 1)
           ELSE IF r + 1 < n_rings THEN RadialEmit(tris, "rings", r + 1, 0)
           ELSE RadialEmit(tris, "save", r, s)

\* fresnel_mesh = mesh.Mesh(triangles); fresnel_mesh.update_normals();
\* fresnel_mesh.save(output_filename)
Radial_Save ==
    /\ prog = "radial2" /\ pc = "save"
    /\ stl_file' = [written |-> TRUE, name |-> radial_filename,
                    count |-> num_triangles, vectors |-> triangles]
    /\ pc' = "report"
    /\ UNCHANGED <<prisms, prog, args, params, fields, buffer, i, j, out, err, bmesh,
                   blend, polar>>

\* the five print calls
Radial_Report ==
    /\ prog = "radial2" /\ pc = "report"
    /\ out' = out \o <<"Generated radial Fresnel lens saved",
                       "Number of triangles", "Maximum lens height",
                       "Lens diameter", "Focal length">>
    /\ pc' = "done"
    /\ UNCHANGED <<prisms, prog, args, params, fields, buffer, i, j, stl_file, err,
                   bmesh, blend, polar>>

InitRadial ==
    /\ prog = "radial2" /\ pc = "validate"
    /\ diameter \in Diameters
    /\ focal_length \in FocalLengths
    /\ n_rings \in 0..MaxRings
    /\ n_segments \in 0..MaxSeg
    /\ refractive_index \in RefractiveIndices
    /\ max_depth \in MaxDepths
    /\ radius = RZero /\ ring_width = RZero /\ r = 0 /\ s = 0
    /\ n_sides = 0 /\ angle = RZero
    /\ vertices = <<>> /\ faces = <<>> /\ fresnel_lens = <<>>
    /\ args = <<>>
    /\ width = RZero /\ height = RZero /\ groove_depth = RZero
    /\ thickness = RZero /\ n_prisms = 0
    /\ x_coords = <<>> /\ y_coords = <<>> /\ ideal_z = <<>> /\ fresnel_z = <<>>
    /\ num_triangles = 0 /\ triangles = <<>> /\ t_idx = 0
    /\ i = 0 /\ j = 0
    /\ stl_file = NoFile /\ out = <<>> /\ err = ""
    /\ bm_verts = <<>> /\ bm_faces = <<>> /\ top_verts = <<>> /\ back_verts = <<>>
    /\ mesh_data = {} /\ scene = {}
    /\ PrismsIdle

NextRadial ==
    \/ Radial_Validate \/ Radial_Calc \/ CentralFacet \/ Rings
    \/ Radial_Save \/ Radial_Report

(***************************************************************************)
(* octagonal_ring.py: rings of prisms, a straight-line script without      *)
(* input validation.  Its parameters are literals of the script; the runs  *)
(* enumerated have n_rings >= 1 and n_sides >= 1.  The value w of line 24  *)
(* is never used and is not kept.                                          *)
(***************************************************************************)
octagonal_filename == "fresnel_lens.stl"

\* np.arctan(q), and np.tan of it: q (to the last bit).
ArcTan(q) == [arctan |-> q]

Tan(a) == a.arctan

\* angle = np.arctan(diameter / (2 * focal_length)): a ZeroDivisionError of
\* Python's scalar division when focal_length is 0;
\* radius = np.linspace(0, diameter / 2, n_rings + 1); vertices = []; faces = []
Octa_Setup ==
    /\ prog = "octagonal_ring" /\ pc = "setup"
    /\ IF focal_length = RZero
       THEN /\ pc' = "error" /\ err' = "division by zero"
            /\ UNCHANGED <<angle, radius>>
       ELSE /\ angle' = ArcTan(RDiv(diameter, RMul(RNum(2), focal_length)))
            /\ radius' = Linspace(RZero, RDiv(diameter, RNum(2)), n_rings + 1)
            /\ pc' = "rings" /\ err' = err
    /\ vertices' = <<>> /\ faces' = <<>>
    /\ i' = 0 /\ j' = 0
    /\ UNCHANGED <<prisms, prog, args, params, fields, buffer, stl_file, out, bmesh,
                   blend, diameter, n_rings, n_segments, max_depth, ring_width,
                   r, s, n_sides, fresnel_lens>>

\* h = thickness - (radius[i + 1] - radius[i]) * np.tan(angle)
PrismHeight(ii) ==
    RSub(thickness, RMul(RSub(radius[ii + 1], radius[ii]), Tan(angle)))

\* The four vertices appended for side j of ring i.
PrismVertices(ii, jj) ==
    LET h == PrismHeight(ii)
        a == Angle(jj, n_sides)
        a_next == Angle(jj + 1, n_sides)
    IN  << <<MulCos(radius[ii], a), MulSin(radius[ii], a), RZero>>,
           <<MulCos(radius[ii + 1], a), MulSin(radius[ii + 1], a), h>>,
           <<MulCos(radius[ii + 1], a_next), MulSin(radius[ii + 1], a_next), h>>,
           <<MulCos(radius[ii], a_next), MulSin(radius[ii], a_next), RZero>> >>

\* The four faces appended, n being the index of the prism's first vertex.
PrismFaces(n) == << <<n, n + 1, n + 2>>, <<n, n + 2, n + 3>>,
                    <<n, n + 1, n + 3>>, <<n + 1, n + 2, n + 3>> >>

\* for i in range(n_rings): for j in range(n_sides): one prism
Octa_Prism ==
    /\ prog = "octagonal_ring" /\ pc = "rings"
    /\ vertices' = vertices \o PrismVertices(i, j)
    /\ faces' = faces \o PrismFaces(Len(vertices') - 4)
    /\ IF j + 1 < n_sides THEN pc' = "rings" /\ i' = i /\ j' = j + 1
       ELSE IF i + 1 < n_rings THEN pc' = "rings" /\ i' = i + 1 /\ j' = 0
       ELSE pc' = "mesh" /\ i' = i /\ j' = j
    /\ UNCHANGED <<prisms, prog, args, params, fields, buffer, stl_file, out, err,
                   bmesh, blend, diameter, n_rings, n_segments, max_depth,
                   radius, ring_width, r, s, n_sides, angle, fresnel_lens>>

\* fresnel_lens = mesh.Mesh(np.zeros(faces.shape[0], ...));
\* fresnel_lens.vectors[i][j] = vertices[f[j], :] (vertices indexed from 0)
Octa_Mesh ==
    /\ prog = "octagonal_ring" /\ pc = "mesh"
    /\ fresnel_lens' = [k \in 1..Len(faces) |->
                           <<vertices[faces[k][1] + 1], vertices[faces[k][2] + 1],
                             vertices[faces[k][3] + 1]>>]
    /\ pc' = "save"
    /\ UNCHANGED <<prisms, prog, args, params, fields, buffer, i, j, stl_file, out, err,
                   bmesh, blend, diameter, n_rings, n_segments, max_depth,
                   radius, ring_width, r, s, n_sides, angle, vertices, faces>>

\* fresnel_lens.save('fresnel_lens.stl')
Octa_Save ==
    /\ prog = "octagonal_ring" /\ pc = "save"
    /\ stl_file' = [written |-> TRUE, name |-> octagonal_filename,
                    count |-> Len(fresnel_lens), vectors |-> fresnel_lens]
    /\ pc' = "done"
    /\ UNCHANGED <<prisms, prog, args, params, fields, buffer, i, j, out, err, bmesh,
                   blend, polar>>

InitOctagonal ==
    /\ prog = "octagonal_ring" /\ pc = "setup"
    /\ focal_length \in FocalLengths
    /\ diameter \in Diameters
    /\ thickness \in Thicknesses
    /\ n_rings \in 1..MaxRings
    /\ n_sides \in 1..MaxSeg
    /\ n_segments = 0 /\ max_depth = RZero
    /\ radius = RZero /\ ring_width = RZero /\ r = 0 /\ s = 0
    /\ angle = RZero
    /\ vertices = <<>> /\ faces = <<>> /\ fresnel_lens = <<>>
    /\ args = <<>>
    /\ width = RZero /\ height = RZero /\ refractive_index = RZero
    /\ groove_depth = RZero /\ n_prisms = 0
    /\ x_coords = <<>> /\ y_coords = <<>> /\ ideal_z = <<>> /\ fresnel_z = <<>>
    /\ num_triangles = 0 /\ triangles = <<>> /\ t_idx = 0
    /\ i = 0 /\ j = 0
    /\ stl_file = NoFile /\ out = <<>> /\ err = ""
    /\ bm_verts = <<>> /\ bm_faces = <<>> /\ top_verts = <<>> /\ back_verts = <<>>
    /\ mesh_data = {} /\ scene = {}
    /\ PrismsIdle

NextOctagonal == Octa_Setup \/ Octa_Prism \/ Octa_Mesh \/ Octa_Save

(***************************************************************************)
(* The polar generators: one run of either script.                         *)
(***************************************************************************)
InitPolar == InitRadial \/ InitOctagonal

NextPolar == NextRadial \/ NextOctagonal

SpecPolar == InitPolar /\ [][NextPolar]_vars

(***************************************************************************)
(* The generators that evaluate the sawtooth height: one run of            *)
(* prism2volume.py, of create_fresnel_lens or of radial2.py.               *)
(***************************************************************************)
InitHeights == Init \/ InitRadial

NextHeights == Next \/ NextRadial

SpecHeights == InitHeights /\ [][NextHeights]_vars

(***************************************************************************)
(* prism1.py: a grid of square prisms, each a sloped top face and one      *)
(* vertical riser.  Lengths are counted in units of 1e-8, so that the      *)
(* literal 1e-9 of line 60 is 1/10.                                        *)
(***************************************************************************)
prism1_filename == "fresnel_lens_corrected.stl"

\* The literal 1e-9 compared with r_eff.
prism1_eps == Rat(1, 10)

\* Input validation: the message of the first ValueError raised, "" if none.
Prism1ValidationError ==
    IF n_prisms <= 0 THEN "n_prisms must be positive"
    ELSE IF RLe(width, RZero) \/ RLe(height, RZero)
        THEN "width and height must be positive"
    ELSE IF RLe(focal_length, RZero)
        THEN "focal_length must be positive for a converging lens"
    ELSE IF RLe(refractive_index, RNum(1))
        THEN "refractive_index must be greater than 1.0"
    ELSE ""

Prism1_Validate ==
    /\ prog = "prism1" /\ pc = "validate"
    /\ IF Prism1ValidationError # ""
       THEN pc' = "error" /\ err' = Prism1ValidationError
       ELSE pc' = "calc" /\ err' = err
    /\ UNCHANGED <<prog, args, params, fields, buffer, i, j, stl_file, out,
                   bmesh, blend, polar, prisms>>

\* NumPrismTriangles counting the top face of each prism only.
NumPrismTriangles_TopOnly(n) == n * n * 2

\* num_triangles = n_prisms * n_prisms * 4
NumPrismTriangles(n) == n * n * 4

\* prism_width, prism_height, num_triangles, triangles = np.zeros(...), t_idx = 0
Prism1_Calc ==
    /\ prog = "prism1" /\ pc = "calc"
    /\ prism_width' = RDiv(width, RNum(n_prisms))
    /\ prism_height' = RDiv(height, RNum(n_prisms))
    /\ num_triangles' = NumPrismTriangles(n_prisms)
    /\ triangles' = [k \in 0..(NumPrismTriangles(n_prisms) - 1) |-> ZeroTriangle]
    /\ t_idx' = 0
    /\ i' = 0 /\ j' = 0
    /\ pc' = "prisms"
    /\ UNCHANGED <<prog, args, params, fields, stl_file, out, err, bmesh, blend,
                   polar, n_facets, gamma, mesh, prism_pitch, prism_angle,
                   num_prisms, prism_centers, prism_slopes, prism_vertices,
                   prism_faces, prism_mesh>>

\* The body of the loops for prism (i, j) = (ii, jj): the four triangles in
\* the order they are stored.
PrismTriangles(ii, jj) ==
    LET half_w == RDiv(width, RNum(2))
        half_h == RDiv(height, RNum(2))
        x1 == RSub(RMul(RNum(ii), prism_width), half_w)
        x2 == RSub(RMul(RNum(ii + 1), prism_width), half_w)
        y1 == RSub(RMul(RNum(jj), prism_height), half_h)
        y2 == RSub(RMul(RNum(jj + 1), prism_height), half_h)
        cx == RDiv(RAdd(x1, x2), RNum(2))
        r_eff == RAbs(cx)
        tan_phi == IF RLt(r_eff, prism1_eps) THEN RZero
                   ELSE LET delta == ArcTan(RDiv(r_eff, focal_length))
                        IN  RDiv(Tan(delta), RSub(refractive_index, RNum(1)))
        prism_step_height == RMul(prism_width, tan_phi)
        v1b == <<x1, y1, RZero>>
        v2b == <<x2, y1, RZero>>
        v3b == <<x2, y2, RZero>>
        v4b == <<x1, y2, RZero>>
        right == RLe(RZero, cx)
        z_inner == IF right THEN RZero ELSE prism_step_height
        z_outer == IF right THEN prism_step_height ELSE RZero
        v1t == <<x1, y1, z_inner>>
        v2t == <<x2, y1, z_outer>>
        v3t == <<x2, y2, z_outer>>
        v4t == <<x1, y2, z_inner>>
        riser_v1 == IF right THEN v2b ELSE v1b
        riser_v2 == IF right THEN v3b ELSE v4b
        riser_v3 == IF right THEN v3t ELSE v4t
        riser_v4 == IF right THEN v2t ELSE v1t
    IN  << <<v1t, v2t, v3t>>,
           <<v1t, v3t, v4t>>,
           <<riser_v1, riser_v2, riser_v3>>,
           <<riser_v1, riser_v3, riser_v4>> >>

\* One loop body of prism1.py: its stores, then the loop's next position.
Prism1Emit(tris, next_pc, next_i, next_j) ==
    LET st == StoreAll([buf |-> triangles, idx |-> t_idx, ok |-> TRUE], tris)
    IN  /\ triangles' = st.buf
        /\ t_idx' = st.idx
        /\ IF st.ok
           THEN pc' = next_pc /\ i' = next_i /\ j' = next_j /\ err' = err
           ELSE pc' = "error" /\ err' = "IndexError" /\ UNCHANGED <<i, j>>
        /\ UNCHANGED <<prog, args, params, fields, num_triangles, stl_file,
                       out, bmesh, blend, polar, prisms>>

\* for i in range(n_prisms): for j in range(n_prisms):
Prism1_Prism ==
    /\ prog = "prism1" /\ pc = "prisms"
    /\ LET tris == PrismTriangles(i, j)
       IN  IF j + 1 < n_prisms THEN Prism1Emit(tris, "prisms", i, j + 1)
           ELSE IF i + 1 < n_prisms THEN Prism1Emit(tris, "prisms", i + 1, 0)
           ELSE Prism1Emit(tris, "save", i, j)

\* fresnel_mesh = mesh.Mesh(triangles); fresnel_mesh.save(output_filename)
Prism1_Save ==
    /\ prog = "prism1" /\ pc = "save"
    /\ stl_file' = [written |-> TRUE, name |-> prism1_filename,
                    count |-> num_triangles, vectors |-> triangles]
    /\ pc' = "report"
    /\ UNCHANGED <<prog, args, params, fields, buffer, i, j, out, err, bmesh,
                   blend, polar, prisms>>

\* the two print calls
Prism1_Report ==
    /\ prog = "prism1" /\ pc = "report"
    /\ out' = out \o <<"Generated Fresnel lens saved", "Number of triangles">>
    /\ pc' = "done"
    /\ UNCHANGED <<prog, args, params, fields, buffer, i, j, stl_file, err,
                   bmesh, blend, polar, prisms>>

InitPrism1 ==
    /\ prog = "prism1" /\ pc = "validate"
    /\ width \in Sides /\ height \in Sides
    /\ focal_length \in FocalLengths
    /\ n_prisms \in 0..MaxDiv
    /\ refractive_index \in RefractiveIndices
    /\ groove_depth = RZero /\ thickness = RZero
    /\ args = <<>>
    /\ x_coords = <<>> /\ y_coords = <<>> /\ ideal_z = <<>> /\ fresnel_z = <<>>
    /\ num_triangles = 0 /\ triangles = <<>> /\ t_idx = 0
    /\ i = 0 /\ j = 0
    /\ stl_file = NoFile /\ out = <<>> /\ err = ""
    /\ bm_verts = <<>> /\ bm_faces = <<>> /\ top_verts = <<>> /\ back_verts = <<>>
    /\ mesh_data = {} /\ scene = {}
    /\ PolarIdle
    /\ PrismsIdle

NextPrism1 ==
    \/ Prism1_Validate \/ Prism1_Calc \/ Prism1_Prism
    \/ Prism1_Save \/ Prism1_Report

(***************************************************************************)
(* The STL generators that fill a pre-sized triangle buffer through the    *)
(* running index t_idx: one run of prism2volume.py, of radial2.py or of    *)
(* prism1.py.                                                              *)
(***************************************************************************)
InitBuffers == InitVolume \/ InitRadial \/ InitPrism1

NextBuffers == NextVolume \/ NextRadial \/ NextPrism1

SpecBuffers == InitBuffers /\ [][NextBuffers]_vars

(***************************************************************************)
(* solid_prism.py: an array of prisms of n_facets facets each, written     *)
(* into a pre-sized mesh through an index computed from (i, j, k).  A      *)
(* straight-line script without input validation.  The facet angle gamma   *)
(* is kept as the expression that defines it, and a z coordinate as the    *)
(* pair (m, c) that stands for m * tan(gamma) + c.                         *)
(***************************************************************************)
solid_filename == "fresnel_lens_solid.stl"

Facets == 1..MaxFacets

\* np.arcsin(q)
ArcSin(q) == [arcsin |-> q]

\* m * np.tan(gamma) + c
ZLin(m, c) == [m |-> m, c |-> c]

\* One all-zero record of mesh.vectors.
ZeroSolidTriangle ==
    LET zero == <<RZero, RZero, ZLin(RZero, RZero)>>
    IN  <<zero, zero, zero>>

\* n_prisms**2 * n_facets * 6
MeshSize(n, f) == n * n * f * 6

\* theta, alpha, beta, gamma and the empty mesh.  1/refractive_index and
\* focal_length/width raise ZeroDivisionError for a zero divisor.
Solid_Setup ==
    /\ prog = "solid_prism" /\ pc = "setup"
    /\ IF refractive_index = RZero \/ width = RZero
       THEN /\ pc' = "error" /\ err' = "ZeroDivisionError"
            /\ UNCHANGED <<gamma, mesh>>
       ELSE LET theta == ArcSin(RDiv(RNum(1), refractive_index))
                alpha == ArcTan(RDiv(focal_length, width))
                beta == [half_of_pi_minus |-> <<theta, alpha>>]
            IN  /\ gamma' = [pi_minus |-> <<alpha, beta>>]
                /\ mesh' = [k \in 0..(MeshSize(n_prisms, n_facets) - 1) |->
                               ZeroSolidTriangle]
                /\ pc' = IF n_prisms > 0 THEN "prisms" ELSE "save"
                /\ err' = err
    /\ i' = 0 /\ j' = 0
    /\ UNCHANGED <<prog, args, params, fields, buffer, stl_file, out, bmesh,
                   blend, polar, prism_width, prism_height, n_facets,
                   prism_pitch, prism_angle, num_prisms, prism_centers,
                   prism_slopes, prism_vertices, prism_faces, prism_mesh>>

\* The six indices of mesh.vectors written for facet k = kk of prism (ii, jj),
\* in the order of the six assignments.
FacetSlots(ii, jj, kk) ==
    LET base == ii * n_prisms * n_facets * 2 + jj * n_facets * 2 + kk
        total == n_prisms * n_prisms * n_facets
    IN  <<base, base + total, base + total * 2, base + total * 2 + 1,
          base + total * 2 + 2, base + total * 2 + 3>>

\* The six triangles of facet kk of prism (ii, jj), in the same order.
FacetTriangles(ii, jj, kk) ==
    LET x1 == RDiv(RMul(RNum(ii), width), RNum(n_prisms))
        x2 == RDiv(RMul(RNum(ii + 1), width), RNum(n_prisms))
        y1 == RDiv(RMul(RNum(jj), height), RNum(n_prisms))
        y2 == RDiv(RMul(RNum(jj + 1), height), RNum(n_prisms))
        \* z1 = 0, z2 = z1 + (x2 - x1) * np.tan(gamma): the factor of tan(gamma)
        z2m == RSub(x2, x1)
        x3 == RAdd(x1, RDiv(RMul(RNum(kk), RSub(x2, x1)), RNum(n_facets)))
        x4 == RAdd(x3, RDiv(RSub(x2, x1), RNum(n_facets)))
        y3 == RAdd(y1, RDiv(RMul(RNum(kk), RSub(y2, y1)), RNum(n_facets)))
        y4 == RAdd(y3, RDiv(RSub(y2, y1), RNum(n_facets)))
        z3m == RDiv(RMul(RNum(kk), z2m), RNum(n_facets))
        z4m == RAdd(z3m, RDiv(z2m, RNum(n_facets)))
        v1 == <<x3, y3, ZLin(z3m, RZero)>>
        v2 == <<x4, y4, ZLin(z4m, RZero)>>
        v3 == <<x4, y3, ZLin(z3m, RZero)>>
        v4 == <<x3, y3, ZLin(z3m, RNeg(thickness))>>
        v5 == <<x4, y4, ZLin(z4m, RNeg(thickness))>>
        v6 == <<x4, y3, ZLin(z3m, RNeg(thickness))>>
    IN  << <<v1, v2, v3>>, <<v4, v5, v6>>,
           <<v1, v4, v6>>, <<v1, v6, v3>>, <<v3, v6, v5>>, <<v3, v5, v2>> >>

\* mesh.vectors[slot] = tri (IndexError when slot is out of range)
Write(st, slot, tri) ==
    IF st.ok /\ slot \in DOMAIN st.buf
    THEN [buf |-> [st.buf EXCEPT ![slot] = tri], ok |-> TRUE]
    ELSE [st EXCEPT !.ok = FALSE]

\* The assignments n..6 of one facet.
RECURSIVE WriteFacet(_, _, _, _)
WriteFacet(st, slots, tris, n) ==
    IF n > Len(slots) THEN st
    ELSE WriteFacet(Write(st, slots[n], tris[n]), slots, tris, n + 1)

\* for k in range(n_facets), from k = kk on
RECURSIVE WriteFacets(_, _, _, _)
WriteFacets(st, ii, jj, kk) ==
    IF kk >= n_facets THEN st
    ELSE WriteFacets(WriteFacet(st, FacetSlots(ii, jj, kk),
                                FacetTriangles(ii, jj, kk), 1),
                     ii, jj, kk + 1)

\* for i in range(n_prisms): for j in range(n_prisms): the body for prism
\* (i, j), its loop over the facets included.
Solid_Prism ==
    /\ prog = "solid_prism" /\ pc = "prisms"
    /\ LET st == WriteFacets([buf |-> mesh, ok |-> TRUE], i, j, 0)
       IN  /\ mesh' = st.buf
           /\ IF ~st.ok
              THEN pc' = "error" /\ err' = "IndexError" /\ UNCHANGED <<i, j>>
              ELSE /\ err' = err
                   /\ IF j + 1 < n_prisms
                      THEN pc' = "prisms" /\ i' = i /\ j' = j + 1
                      ELSE IF i + 1 < n_prisms
                      THEN pc' = "prisms" /\ i' = i + 1 /\ j' = 0
                      ELSE pc' = "save" /\ UNCHANGED <<i, j>>
    /\ UNCHANGED <<prog, args, params, fields, buffer, stl_file, out, bmesh,
                   blend, polar, prism_width, prism_height, n_facets, gamma,
                   prism_pitch, prism_angle, num_prisms, prism_centers,
                   prism_slopes, prism_vertices, prism_faces, prism_mesh>>

\* mesh.save('fresnel_lens_solid.stl')
Solid_Save ==
    /\ prog = "solid_prism" /\ pc = "save"
    /\ stl_file' = [written |-> TRUE, name |-> solid_filename,
                    count |-> MeshSize(n_prisms, n_facets), vectors |-> mesh]
    /\ pc' = "done"
    /\ UNCHANGED <<prog, args, params, fields, buffer, i, j, out, err, bmesh,
                   blend, polar, prisms>>

InitSolid ==
    /\ prog = "solid_prism" /\ pc = "setup"
    /\ width \in Sides /\ height = RNum(2)
    /\ focal_length \in FocalLengths
    /\ n_prisms \in 0..MaxDiv
    /\ n_facets \in Facets
    /\ refractive_index \in RefractiveIndices
    /\ thickness \in Thicknesses
    /\ groove_depth = RZero
    /\ args = <<>>
    /\ x_coords = <<>> /\ y_coords = <<>> /\ ideal_z = <<>> /\ fresnel_z = <<>>
    /\ num_triangles = 0 /\ triangles = <<>> /\ t_idx = 0
    /\ i = 0 /\ j = 0
    /\ stl_file = NoFile /\ out = <<>> /\ err = ""
    /\ bm_verts = <<>> /\ bm_faces = <<>> /\ top_verts = <<>> /\ back_verts = <<>>
    /\ mesh_data = {} /\ scene = {}
    /\ PolarIdle
    /\ prism_width = RZero /\ prism_height = RZero
    /\ gamma = RZero /\ mesh = <<>>
    /\ prism_pitch = RZero /\ prism_angle = RZero /\ num_prisms = 0
    /\ prism_centers = <<>> /\ prism_slopes = <<>>
    /\ prism_vertices = <<>> /\ prism_faces = <<>> /\ prism_mesh = <<>>

NextSolid == Solid_Setup \/ Solid_Prism \/ Solid_Save

(***************************************************************************)
(* prism2.py: a row of prisms along the x-axis, built as a vertex list and *)
(* a face list and then copied into a mesh.  A straight-line script        *)
(* without input validation.  Lists and arrays are sequences (position     *)
(* k + 1 holds index k).  A slope is kept as the expression that defines   *)
(* it, and a coordinate as the record [a, slope_of, factor] that stands    *)
(* for a + slope(slope_of) * factor.                                       *)
(***************************************************************************)
prism2_filename == "fresnel_lens.stl"

Pitches == {RNum(0), RNum(1), RNum(3)}

\* np.ceil(a) as an integer
RCeil(a) == -((-a.n) \div a.d)

\* np.sqrt(2 * (focal_length - np.sqrt(focal_length ** 2 - c ** 2)))
Slope(c) == [slope |-> c, f |-> focal_length]

\* a plain number as a coordinate
Plain(a) == [a |-> a, slope_of |-> <<>>, factor |-> "none"]

\* a + sl * np.tan(np.radians(prism_angle))
PlusSlopeTan(a, sl) == [a |-> a, slope_of |-> <<sl>>, factor |-> "tan(prism_angle)"]

\* the slope itself as the z coordinate
SlopeZ(sl) == [a |-> RZero, slope_of |-> <<sl>>, factor |-> "1"]

\* num_prisms, prism_centers, prism_slopes; prism_vertices = []
\* (diameter / prism_pitch raises ZeroDivisionError for prism_pitch = 0)
P2_Setup ==
    /\ prog = "prism2" /\ pc = "setup"
    /\ IF prism_pitch = RZero
       THEN /\ pc' = "error" /\ err' = "ZeroDivisionError"
            /\ UNCHANGED <<num_prisms, prism_centers, prism_slopes>>
       ELSE LET n == RCeil(RDiv(diameter, prism_pitch))
                half_d == RDiv(diameter, RNum(2))
                half_p == RDiv(prism_pitch, RNum(2))
                centers == Linspace(RAdd(RNeg(half_d), half_p),
                                    RSub(half_d, half_p), n)
            IN  /\ num_prisms' = n
                /\ prism_centers' = centers
                /\ prism_slopes' = [k \in DOMAIN centers |-> Slope(centers[k])]
                /\ pc' = IF n > 0 THEN "vertices" ELSE "arrays"
                /\ err' = err
    /\ i' = 0
    /\ UNCHANGED <<prog, args, params, fields, buffer, j, stl_file, out, bmesh,
                   blend, polar, prism_width, prism_height, n_facets, gamma,
                   mesh, prism_pitch, prism_angle, prism_vertices, prism_faces,
                   prism_mesh>>

\* The four vertices of the prism with center cen and slope sl.
PrismCorners(cen, sl) ==
    LET half_p == RDiv(prism_pitch, RNum(2))
        half_h == RDiv(prism_height, RNum(2))
        v1 == <<Plain(RSub(cen, half_p)), Plain(RNeg(half_h)), Plain(RZero)>>
        v2 == <<Plain(RAdd(cen, half_p)), Plain(RNeg(half_h)), Plain(RZero)>>
        v3 == <<PlusSlopeTan(RAdd(cen, half_p), sl), Plain(half_h), SlopeZ(sl)>>
        v4 == <<PlusSlopeTan(RSub(cen, half_p), sl), Plain(half_h), SlopeZ(sl)>>
    IN  <<v1, v2, v3, v4>>

\* for c, s in zip(prism_centers, prism_slopes): one prism, at position i of
\* the zip; prism_faces = [] after the last one.
P2_Vertices ==
    /\ prog = "prism2" /\ pc = "vertices"
    /\ prism_vertices' = Append(prism_vertices,
                                PrismCorners(prism_centers[i], prism_slopes[i]))
    /\ IF i + 1 < num_prisms THEN pc' = "vertices" /\ i' = i + 1
       ELSE pc' = "faces" /\ i' = 0
    /\ UNCHANGED <<prog, args, params, fields, buffer, j, stl_file, out, err,
                   bmesh, blend, polar, prism_width, prism_height, n_facets,
                   gamma, mesh, prism_pitch, prism_angle, num_prisms,
                   prism_centers, prism_slopes, prism_faces, prism_mesh>>

\* f1 = [i1, i2, i3], f2 = [i1, i3, i4] for i = ii
PrismFaceIndices(ii) ==
    LET i1 == ii * 4
        i2 == ii * 4 + 1
        i3 == ii * 4 + 2
        i4 == ii * 4 + 3
    IN  << <<i1, i2, i3>>, <<i1, i3, i4>> >>

\* for i, v in enumerate(prism_vertices): the two faces of one prism
P2_Faces ==
    /\ prog = "prism2" /\ pc = "faces"
    /\ prism_faces' = prism_faces \o PrismFaceIndices(i)
    /\ IF i + 1 < Len(prism_vertices) THEN pc' = "faces" /\ i' = i + 1
       ELSE pc' = "arrays" /\ i' = 0
    /\ UNCHANGED <<prog, args, params, fields, buffer, j, stl_file, out, err,
                   bmesh, blend, polar, prism_width, prism_height, n_facets,
                   gamma, mesh, prism_pitch, prism_angle, num_prisms,
                   prism_centers, prism_slopes, prism_vertices, prism_mesh>>

\* a.shape[0] of an array
Size(a) == Len(a)

\* The shape of one entry a[k, :] of the vertex array: every entry is a list
\* of corners, every corner a coordinate triple.
EntryShape(e) == <<Len(e), Len(e[1])>>

\* The shape of one vertex slot prism_mesh.vectors[i][j].
SlotShape == <<3>>

\* One all-zero record of prism_mesh.vectors.
ZeroPrismTriangle ==
    LET zero == <<Plain(RZero), Plain(RZero), Plain(RZero)>>
    IN  <<zero, zero, zero>>

\* prism_vertices = np.array(prism_vertices); prism_faces = np.array(prism_faces);
\* prism_mesh = stl.mesh.Mesh(np.zeros(prism_faces.shape[0], ...))
\* (the conversions keep the nesting: the vertex array is num_prisms x 4 x 3)
P2_Arrays ==
    /\ prog = "prism2" /\ pc = "arrays"
    /\ prism_mesh' = [k \in 1..Size(prism_faces) |-> ZeroPrismTriangle]
    /\ i' = 0 /\ j' = 0
    /\ pc' = IF Len(prism_faces) > 0 THEN "fill" ELSE "save"
    /\ UNCHANGED <<prog, args, params, fields, buffer, stl_file, out, err,
                   bmesh, blend, polar, prism_width, prism_height, n_facets,
                   gamma, mesh, prism_pitch, prism_angle, num_prisms,
                   prism_centers, prism_slopes, prism_vertices, prism_faces>>

\* prism_mesh.vectors[i][j] = prism_vertices[f[j], :] for f = prism_faces[i]:
\* f[j] indexes the first axis of the vertex array (IndexError when it is not
\* below its size), and the entry read must have the shape (3,) of the slot
\* it is assigned to (ValueError: could not broadcast).
P2_Fill ==
    /\ prog = "prism2" /\ pc = "fill"
    /\ LET f == prism_faces[i + 1]
           size == Size(prism_vertices)
       IN  IF f[j + 1] < 0 \/ f[j + 1] >= size
           THEN /\ pc' = "error" /\ err' = "IndexError"
                /\ UNCHANGED <<prism_mesh, i, j>>
           ELSE IF EntryShape(prism_vertices[f[j + 1] + 1]) # SlotShape
           THEN /\ pc' = "error" /\ err' = "ValueError: could not broadcast"
                /\ UNCHANGED <<prism_mesh, i, j>>
           ELSE /\ prism_mesh' = [prism_mesh EXCEPT ![i + 1][j + 1] =
                                      prism_vertices[f[j + 1] + 1]]
                /\ err' = err
                /\ IF j + 1 < 3 THEN pc' = "fill" /\ i' = i /\ j' = j + 1
                   ELSE IF i + 1 < Len(prism_faces)
                   THEN pc' = "fill" /\ i' = i + 1 /\ j' = 0
                   ELSE pc' = "save" /\ UNCHANGED <<i, j>>
    /\ UNCHANGED <<prog, args, params, fields, buffer, stl_file, out, bmesh,
                   blend, polar, prism_width, prism_height, n_facets, gamma,
                   mesh, prism_pitch, prism_angle, num_prisms, prism_centers,
                   prism_slopes, prism_vertices, prism_faces>>

\* prism_mesh.save('fresnel_lens.stl')
P2_Save ==
    /\ prog = "prism2" /\ pc = "save"
    /\ stl_file' = [written |-> TRUE, name |-> prism2_filename,
                    count |-> Len(prism_mesh), vectors |-> prism_mesh]
    /\ pc' = "done"
    /\ UNCHANGED <<prog, args, params, fields, buffer, i, j, out, err, bmesh,
                   blend, polar, prisms>>

InitPrism2 ==
    /\ prog = "prism2" /\ pc = "setup"
    /\ diameter \in Diameters
    /\ focal_length \in FocalLengths
    /\ prism_height = RNum(1)
    /\ prism_pitch \in Pitches
    /\ prism_angle = RNum(45)
    /\ num_prisms = 0
    /\ prism_centers = <<>> /\ prism_slopes = <<>>
    /\ prism_vertices = <<>> /\ prism_faces = <<>> /\ prism_mesh = <<>>
    /\ prism_width = RZero /\ n_facets = 0 /\ gamma = RZero /\ mesh = <<>>
    /\ n_rings = 0 /\ n_segments = 0 /\ max_depth = RZero
    /\ radius = RZero /\ ring_width = RZero /\ r = 0 /\ s = 0
    /\ n_sides = 0 /\ angle = RZero
    /\ vertices = <<>> /\ faces = <<>> /\ fresnel_lens = <<>>
    /\ args = <<>>
    /\ width = RZero /\ height = RZero /\ refractive_index = RZero
    /\ groove_depth = RZero /\ thickness = RZero /\ n_prisms = 0
    /\ x_coords = <<>> /\ y_coords = <<>> /\ ideal_z = <<>> /\ fresnel_z = <<>>
    /\ num_triangles = 0 /\ triangles = <<>> /\ t_idx = 0
    /\ i = 0 /\ j = 0
    /\ stl_file = NoFile /\ out = <<>> /\ err = ""
    /\ bm_verts = <<>> /\ bm_faces = <<>> /\ top_verts = <<>> /\ back_verts = <<>>
    /\ mesh_data = {} /\ scene = {}

NextPrism2 ==
    \/ P2_Setup \/ P2_Vertices \/ P2_Faces \/ P2_Arrays \/ P2_Fill \/ P2_Save

(***************************************************************************)
(* The prism scripts that address their mesh by computed indices: one run  *)
(* of solid_prism.py or of prism2.py.                                      *)
(***************************************************************************)
InitPrisms == InitSolid \/ InitPrism2

NextPrisms == NextSolid \/ NextPrism2

SpecPrisms == InitPrisms /\ [][NextPrisms]_vars

(***************************************************************************)
(* The mesh a run has produced so far, and its geometry.                   *)
(***************************************************************************)
Divisions == IF prog = "blender" THEN args.n_divisions ELSE n_prisms

\* create_fresnel_lens: the faces and the vertices in bm, or in the mesh
\* datablock once bm.to_mesh has copied them.
LensFaces == IF mesh_data = {} THEN bm_faces
             ELSE (CHOOSE m \in mesh_data : TRUE).polygons

LensVerts == IF mesh_data = {} THEN bm_verts
             ELSE (CHOOSE m \in mesh_data : TRUE).vertices

\* The triangles emitted so far, as triples of positions, in emission order.
MeshTriangles ==
    IF prog = "prism2volume"
    THEN [k \in 1..t_idx |-> triangles[k - 1]]
    ELSE [k \in 1..Len(LensFaces) |->
             <<LensVerts[LensFaces[k][1]], LensVerts[LensFaces[k][2]],
               LensVerts[LensFaces[k][3]]>>]

\* The same triangles with each vertex named by its identity: its position in
\* the STL buffer, its BMVert handle in Blender.
MeshById == IF prog = "prism2volume" THEN MeshTriangles ELSE LensFaces

TopPos(jj, ii) == <<x_coords[ii], y_coords[jj], fresnel_z[jj][ii]>>

BackPos(jj, ii) == <<x_coords[ii], y_coords[jj], RNeg(thickness)>>

Cells == 0..(Divisions - 1)

\* Every top sample lies strictly above the back plane.
TopAboveBack ==
    \A jj \in DOMAIN fresnel_z : \A ii \in DOMAIN fresnel_z[jj] :
        RLt(RNeg(thickness), fresnel_z[jj][ii])

\* The parameters describe a solid: positive extent and thickness, d >= 1.
ValidSolid ==
    /\ Divisions >= 1
    /\ RLt(RZero, width) /\ RLt(RZero, height) /\ RLt(RZero, thickness)
    /\ fresnel_z # <<>>
    /\ TopAboveBack

VSub(a, b) == <<RSub(a[1], b[1]), RSub(a[2], b[2]), RSub(a[3], b[3])>>

Cross(u, v) == <<RSub(RMul(u[2], v[3]), RMul(u[3], v[2])),
                 RSub(RMul(u[3], v[1]), RMul(u[1], v[3])),
                 RSub(RMul(u[1], v[2]), RMul(u[2], v[1]))>>

\* Right-hand-rule normal of a triangle (not normalised).
Normal(t) == Cross(VSub(t[2], t[1]), VSub(t[3], t[1]))

\* Twice the signed area of the xy-projection: > 0 iff counter-clockwise from +z.
SignedArea2(t) == Normal(t)[3]

VertexSet(t) == {t[1], t[2], t[3]}

DirEdges(t) == {<<t[1], t[2]>>, <<t[2], t[3]>>, <<t[3], t[1]>>}

\* The mesh triangles all of whose vertices are among the given positions.
TrianglesWithin(corners) ==
    {k \in DOMAIN MeshTriangles : VertexSet(MeshTriangles[k]) \subseteq corners}

IsBackTriangle(t) == \A v \in VertexSet(t) : v[3] = RNeg(thickness)

IsTopTriangle(t) == \A v \in VertexSet(t) : v[3] # RNeg(thickness)

(***************************************************************************)
(* C1. For d >= 1 divisions both generators end with exactly               *)
(* 2*d*d + 2*d*d + 4*2*d triangles: in prism2volume.py the running index   *)
(* t_idx ends equal to the pre-computed num_triangles and to that number   *)
(* (which is also the count written to the file), no store falls outside   *)
(* the buffer, and create_fresnel_lens creates the same number of faces;   *)
(* for a valid solid 2*d*d of them are top triangles, 2*d*d back triangles *)
(* and 8*d side-wall triangles.                                            *)
(***************************************************************************)
C1_TriangleCount ==
    /\ err # "IndexError"
    /\ (pc = "done" /\ Divisions >= 1) =>
        LET d == Divisions
            M == MeshTriangles
        IN  /\ Len(M) = 2 * d * d + 2 * d * d + 4 * 2 * d
            /\ prog = "prism2volume" =>
                  /\ t_idx = num_triangles
                  /\ t_idx = 2 * d * d + 2 * d * d + 4 * 2 * d
                  /\ stl_file.written /\ stl_file.count = t_idx
            /\ ValidSolid =>
                  /\ Cardinality({k \in DOMAIN M : IsTopTriangle(M[k])}) = 2 * d * d
                  /\ Cardinality({k \in DOMAIN M : IsBackTriangle(M[k])}) = 2 * d * d
                  /\ Cardinality({k \in DOMAIN M : ~IsTopTriangle(M[k])
                                     /\ ~IsBackTriangle(M[k])}) = 4 * 2 * d

C1_Witness ==
    /\ pc = "done" /\ prog = "prism2volume" /\ n_prisms = 2
    /\ t_idx = 32 /\ stl_file.count = 32

(***************************************************************************)
(* C2. In the finished mesh every edge is used by exactly two triangles,   *)
(* which traverse it in opposite directions: every directed edge of every  *)
(* triangle occurs once, and its reverse occurs once.                      *)
(***************************************************************************)
C2_ClosedOrientedManifold ==
    (pc = "done" /\ ValidSolid) =>
        LET M == MeshById
        IN  \A k \in DOMAIN M : \A e \in DirEdges(M[k]) :
                /\ Cardinality({m \in DOMAIN M : e \in DirEdges(M[m])}) = 1
                /\ Cardinality({m \in DOMAIN M :
                                   <<e[2], e[1]>> \in DirEdges(M[m])}) = 1

(***************************************************************************)
(* C3. Every segment of each of the four outer grid edges carries two      *)
(* side-wall triangles, and their right-hand-rule normals point outwards:  *)
(* -y on the bottom edge (j = 0), +y on the top edge (j = d), -x on the    *)
(* left edge (i = 0), +x on the right edge (i = d).                        *)
(***************************************************************************)
WallOutward(corners, axis, sign) ==
    LET S == TrianglesWithin(corners)
    IN  /\ Cardinality(S) = 2
        /\ \A k \in S :
              LET N == Normal(MeshTriangles[k])
              IN  /\ Sgn(N[axis].n) = sign
                  /\ N[3 - axis] = RZero /\ N[3] = RZero

C3_WallNormalsOutward ==
    (pc = "done" /\ ValidSolid) =>
        LET d == Divisions
        IN  \A c \in Cells :
            /\ WallOutward({TopPos(0, c), TopPos(0, c + 1),
                            BackPos(0, c), BackPos(0, c + 1)}, 2, -1)
            /\ WallOutward({TopPos(d, c), TopPos(d, c + 1),
                            BackPos(d, c), BackPos(d, c + 1)}, 2, 1)
            /\ WallOutward({TopPos(c, 0), TopPos(c + 1, 0),
                            BackPos(c, 0), BackPos(c + 1, 0)}, 1, -1)
            /\ WallOutward({TopPos(c, d), TopPos(c + 1, d),
                            BackPos(c, d), BackPos(c + 1, d)}, 1, 1)

(***************************************************************************)
(* C4. For every grid cell of a valid solid the finished mesh holds        *)
(* exactly two triangles on the cell's four top samples; they share one    *)
(* diagonal of the quad, together use all four corners, and each is        *)
(* counter-clockwise seen from +z (positive signed area in xy).            *)
(***************************************************************************)
C4_TopFaceCCW ==
    (pc = "done" /\ ValidSolid) =>
        \A jj \in Cells : \A ii \in Cells :
            LET corners == {TopPos(jj, ii), TopPos(jj, ii + 1),
                            TopPos(jj + 1, ii + 1), TopPos(jj + 1, ii)}
                S == TrianglesWithin(corners)
                M == MeshTriangles
            IN  /\ Cardinality(S) = 2
                /\ \A k \in S : Sgn(SignedArea2(M[k]).n) = 1
                /\ \A k, m \in S : k # m =>
                      /\ Cardinality(VertexSet(M[k]) \cap VertexSet(M[m])) = 2
                      /\ VertexSet(M[k]) \cup VertexSet(M[m]) = corners

C4_Witness ==
    /\ pc = "done" /\ prog = "prism2volume" /\ n_prisms = 2
    /\ fresnel_z[0][0] # RZero
    /\ Cardinality(TrianglesWithin({TopPos(1, 1), TopPos(1, 2),
                                    TopPos(2, 2), TopPos(2, 1)})) = 2

(***************************************************************************)
(* C5. For every grid cell of a valid solid the finished mesh holds        *)
(* exactly two triangles on the cell's four back vertices, which lie at    *)
(* z = -thickness under the (x, y) of the cell's top samples; they share a *)
(* diagonal and each is clockwise seen from +z (negative signed area).     *)
(***************************************************************************)
C5_BackFaceCW ==
    (pc = "done" /\ ValidSolid) =>
        \A jj \in Cells : \A ii \in Cells :
            LET corners == {BackPos(jj, ii), BackPos(jj, ii + 1),
                            BackPos(jj + 1, ii + 1), BackPos(jj + 1, ii)}
                S == TrianglesWithin(corners)
                M == MeshTriangles
            IN  /\ Cardinality(S) = 2
                /\ \A k \in S :
                      /\ Sgn(SignedArea2(M[k]).n) = -1
                      /\ \A v \in VertexSet(M[k]) :
                            /\ v[3] = RNeg(thickness)
                            /\ \E cj \in {jj, jj + 1}, ci \in {ii, ii + 1} :
                                  /\ v[1] = TopPos(cj, ci)[1]
                                  /\ v[2] = TopPos(cj, ci)[2]
                /\ \A k, m \in S : k # m =>
                      /\ Cardinality(VertexSet(M[k]) \cap VertexSet(M[m])) = 2
                      /\ VertexSet(M[k]) \cup VertexSet(M[m]) = corners

C5_Witness ==
    /\ pc = "done" /\ prog = "blender" /\ ValidSolid /\ args.n_divisions = 2
    /\ Cardinality(TrianglesWithin({BackPos(0, 0), BackPos(0, 1),
                                    BackPos(1, 1), BackPos(1, 0)})) = 2

(***************************************************************************)
(* C6. prism2volume.py compares t_idx with num_triangles before it writes  *)
(* the STL file: whenever the file exists the comparison has been made,    *)
(* and a run whose counts differ ends in an error without a file.          *)
(***************************************************************************)
C6_CountCheckedBeforeSave ==
    prog = "prism2volume" =>
        /\ stl_file.written => pc \notin {"report", "check"}
        /\ (pc \in {"done", "error"} /\ t_idx # num_triangles) =>
              pc = "error" /\ ~stl_file.written

(***************************************************************************)
(* C7. prism2volume.py with n_prisms <= 0, width <= 0, height <= 0,        *)
(* refractive_index <= 1.0 or thickness <= 0 only ever validates and ends  *)
(* in a ValueError: no grid is sampled, no height field computed, no       *)
(* buffer allocated, no triangle emitted and no file written.              *)
(***************************************************************************)
InvalidParameter ==
    \/ n_prisms <= 0
    \/ RLe(width, RZero) \/ RLe(height, RZero)
    \/ RLe(refractive_index, RNum(1))
    \/ RLe(thickness, RZero)

NothingSampled ==
    /\ x_coords = <<>> /\ y_coords = <<>>
    /\ ideal_z = <<>> /\ fresnel_z = <<>>
    /\ num_triangles = 0 /\ triangles = <<>> /\ t_idx = 0
    /\ stl_file = NoFile

C7_InvalidParameterRejected ==
    (prog = "prism2volume" /\ InvalidParameter) =>
        /\ pc \in {"validate", "error"}
        /\ pc = "error" =>
              err \in {"n_prisms must be positive",
                       "width and height must be positive",
                       "focal_length cannot be zero",
                       "refractive_index must be greater than 1.0",
                       "groove_depth must be positive",
                       "thickness must be positive"}
        /\ NothingSampled

C7_Witness ==
    /\ prog = "prism2volume" /\ pc = "error"
    /\ err = "thickness must be positive"
    /\ thickness = RZero /\ n_prisms = 2
    /\ NothingSampled

(***************************************************************************)
(* C8. create_fresnel_lens called with n_divisions <= 0, width_mm <= 0,    *)
(* height_mm <= 0, refractive_index <= 1.0 or thickness_mm <= 0 never      *)
(* returns normally and creates no vertex, face, mesh datablock or object. *)
(***************************************************************************)
InvalidLensParameter ==
    \/ args.n_divisions <= 0
    \/ RLe(args.width_mm, RZero) \/ RLe(args.height_mm, RZero)
    \/ RLe(args.refractive_index, RNum(1))
    \/ RLe(args.thickness_mm, RZero)

C8_LensInvalidParameterRejected ==
    (prog = "blender" /\ InvalidLensParameter) =>
        /\ pc # "done"
        /\ bm_verts = <<>> /\ bm_faces = <<>>
        /\ mesh_data = {} /\ scene = {}

(***************************************************************************)
(* C9. create_fresnel_lens with |focal_length_mm * 0.001| < 1e-9 or        *)
(* |refractive_index - 1| < 1e-9: the ideal and the grooved height of      *)
(* every sample are exactly 0 (no quotient, finite or not, is stored), a   *)
(* flat-surface warning is printed, every top vertex is at z = 0, and the  *)
(* run goes on to the full solid: 2*(d+1)^2 vertices, 4*d*d + 8*d faces, a *)
(* mesh datablock and a linked object (d = n_divisions >= 0; the only      *)
(* error is np.linspace refusing a negative sample count).                 *)
(***************************************************************************)
DegenerateOptics ==
    \/ RLt(RAbs(RMul(args.focal_length_mm, scale_factor)), eps)
    \/ RLt(RAbs(RSub(args.refractive_index, RNum(1))), eps_index)

FlatWarnings == {"Warning: Focal length is near zero. Generating flat surface.",
                 "Warning: Refractive index is near 1.0. Generating flat surface."}

C9_DegenerateOpticsFlat ==
    (prog = "blender" /\ DegenerateOptics) =>
        /\ pc = "error" => args.n_divisions < -1
        /\ pc \notin {"scale", "grid", "height", "error"} =>
              /\ \A jj \in DOMAIN fresnel_z : \A ii \in DOMAIN fresnel_z[jj] :
                    ideal_z[jj][ii] = RZero /\ fresnel_z[jj][ii] = RZero
              /\ \E k \in DOMAIN out : out[k] \in FlatWarnings
        /\ pc \notin {"scale", "grid", "height", "verts", "error"} =>
              /\ Len(LensVerts) = 2 * (args.n_divisions + 1) * (args.n_divisions + 1)
              /\ \A h \in DOMAIN LensVerts :
                    h % 2 = 1 => LensVerts[h][3] = RZero
        /\ (pc = "done" /\ args.n_divisions >= 0) =>
              /\ Len(LensFaces) = 4 * args.n_divisions * args.n_divisions
                                    + 8 * args.n_divisions
              /\ Cardinality(mesh_data) = 1
              /\ Cardinality(scene) = 1

C9_Witness ==
    /\ prog = "blender" /\ pc = "done"
    /\ focal_length = RNum(1) /\ args.refractive_index = Rat(3, 2)
    /\ groove_depth = RNum(3) /\ args.n_divisions = 2
    /\ Len(LensFaces) = 32
    /\ fresnel_z[0][0] = RZero

(***************************************************************************)
(* C10 as stated: prism2volume.py with focal_length = 0 and otherwise      *)
(* valid parameters does not end in an error; it completes with all top    *)
(* heights zero and a report of the degenerate optics.                     *)
(***************************************************************************)
OtherwiseValid ==
    /\ n_prisms > 0
    /\ RLt(RZero, width) /\ RLt(RZero, height)
    /\ RLt(RNum(1), refractive_index)
    /\ RLt(RZero, groove_depth)
    /\ RLt(RZero, thickness)

ContinuousMode == ~ RLt(eps, RMul(args.groove_depth_mm, scale_factor))

ContinuousZ(x, y, f, ri) ==
    RDiv(RAdd(RMul(x, x), RMul(y, y)),
         RMul(RMul(RNum(2), f), RSub(ri, RNum(1))))

C11_ContinuousSurface ==
    (prog = "blender" /\ ContinuousMode /\ ~ DegenerateOptics) =>
        /\ pc = "error" => args.n_divisions < -1
        /\ pc \notin {"scale", "grid", "height", "error"} =>
              /\ \A jj \in DOMAIN fresnel_z : \A ii \in DOMAIN fresnel_z[jj] :
                    fresnel_z[jj][ii] =
                        ContinuousZ(x_coords[ii], y_coords[jj], focal_length,
                                    args.refractive_index)
              /\ \E k \in DOMAIN out :
                    out[k] = "Warning: Groove depth is near zero. Using ideal surface."
        /\ pc \notin {"scale", "grid", "height", "verts", "error"} =>
              LET nx == args.n_divisions + 1
              IN  /\ Len(LensVerts) = 2 * nx * nx
                  /\ \A jj \in DOMAIN y_coords : \A ii \in DOMAIN x_coords :
                        LensVerts[TopHandle(jj, ii, nx)] =
                            <<x_coords[ii], y_coords[jj],
                              ContinuousZ(x_coords[ii], y_coords[jj],
                                          focal_length, args.refractive_index)>>
        /\ (pc = "done" /\ args.n_divisions >= 0) =>
              /\ Len(LensFaces) = 4 * args.n_divisions * args.n_divisions
                                    + 8 * args.n_divisions
              /\ Cardinality(mesh_data) = 1
              /\ Cardinality(scene) = 1

C11_Witness ==
    /\ prog = "blender" /\ pc = "done"
    /\ groove_depth = RZero /\ focal_length = RNum(-3)
    /\ args.refractive_index = Rat(3, 2) /\ args.n_divisions = 2
    /\ width = RNum(4) /\ height = RNum(2)
    /\ Len(LensFaces) = 32
    /\ LensVerts[TopHandle(0, 0, 3)] = <<RNum(-2), RNum(-1), Rat(-5, 3)>>

(***************************************************************************)
(* C12. prism2volume.py with groove_depth = 0 and every other parameter    *)
(* valid does not end in an error: it completes, writes the file, and the  *)
(* top heights are the continuous ideal_z.                                 *)
(***************************************************************************)
ValidButGroove ==
    /\ n_prisms > 0
    /\ RLt(RZero, width) /\ RLt(RZero, height)
    /\ focal_length # RZero
    /\ RLt(RNum(1), refractive_index)
    /\ RLt(RZero, thickness)

C12_ZeroGrooveContinuous ==
    (prog = "prism2volume" /\ groove_depth = RZero /\ ValidButGroove) =>
        /\ pc # "error"
        /\ pc = "done" =>
              /\ stl_file.written
              /\ fresnel_z = ideal_z

(***************************************************************************)
(* C14. prism2volume.py, once the grid is built (so d = n_prisms >= 1):    *)
(* x_coords and y_coords have exactly d + 1 samples, indexed 0..d, running *)
(* in equal steps from -width/2 to +width/2 and from -height/2 to          *)
(* +height/2 inclusive; the height field is (d+1) x (d+1); and in every    *)
(* mesh loop the indices used (i, i+1, j, j+1 and the fixed edge index d)  *)
(* are indices of the grid.                                                *)
(***************************************************************************)
C14_GridBounds ==
    (prog = "prism2volume" /\ pc \notin {"validate", "grid", "error"}) =>
        LET d == n_prisms
            half_w == RDiv(width, RNum(2))
            half_h == RDiv(height, RNum(2))
        IN  /\ d >= 1
            /\ DOMAIN x_coords = 0..d /\ DOMAIN y_coords = 0..d
            /\ x_coords[0] = RNeg(half_w) /\ x_coords[d] = half_w
            /\ y_coords[0] = RNeg(half_h) /\ y_coords[d] = half_h
            /\ \A k \in 0..(d - 1) :
                  /\ RSub(x_coords[k + 1], x_coords[k]) = RDiv(width, RNum(d))
                  /\ RSub(y_coords[k + 1], y_coords[k]) = RDiv(height, RNum(d))
            /\ pc # "height" =>
                  /\ DOMAIN fresnel_z = 0..d
                  /\ \A jj \in 0..d : DOMAIN fresnel_z[jj] = 0..d
            /\ pc \in {"top", "back"} =>
                  /\ {i, i + 1} \subseteq DOMAIN x_coords
                  /\ {j, j + 1} \subseteq DOMAIN y_coords
            /\ pc \in {"bottom_edge", "top_edge"} =>
                  /\ {i, i + 1} \subseteq DOMAIN x_coords
                  /\ {0, d} \subseteq DOMAIN y_coords
            /\ pc \in {"left_edge", "right_edge"} =>
                  /\ {j, j + 1} \subseteq DOMAIN y_coords
                  /\ {0, d} \subseteq DOMAIN x_coords

C14_Witness ==
    /\ prog = "prism2volume" /\ pc = "right_edge"
    /\ n_prisms = 3 /\ j = 2
    /\ width = RNum(4) /\ height = RNum(2)
    /\ x_coords[3] = RNum(2) /\ y_coords[1] = Rat(-1, 3)

(***************************************************************************)
(* C13. Wherever the sawtooth height is computed as ideal_z modulo a       *)
(* positive depth, it is at least 0 and below the divisor, for negative    *)
(* focal lengths as for positive ones: 0 <= fresnel_z < groove_depth +     *)
(* 1e-9 for every sample of prism2volume.py and, when groove_depth > 1e-9, *)
(* of create_fresnel_lens; 0 <= calculate_height(r) < max_depth for every  *)
(* sample radius of radial2.py and every vertex it stores.                 *)
(***************************************************************************)
InSawtooth(h, m) == RLe(RZero, h) /\ RLt(h, m)

RadialDone == prog = "radial2" /\ pc = "done"

\* radial2.py: the fan triangle of segment ss; triangle k (0, 1: top face,
\* 2, 3: inner radial face) of segment ss of ring rr.
FanTriangle(ss) == triangles[ss]

RingTriangle(rr, ss, k) == triangles[n_segments + 4 * (rr * n_segments + ss) + k]

\* The emitted triangles, numbered from 1.
PolarTriangles ==
    IF prog = "radial2" THEN [k \in 1..t_idx |-> triangles[k - 1]]
    ELSE fresnel_lens

\* The (x, y) positions under a triangle.
Footprint(t) == {<<t[c][1], t[c][2]>> : c \in 1..3}

OnBackPlane(t) == \A c \in 1..3 : t[c][3] = RZero

\* Two of the corners lie on one vertical line.
IsVertical(t) == Cardinality(Footprint(t)) < 3

VertexRadius(v) == Hypot(v[1], v[2])

(***************************************************************************)
(* C15. radial2.py with n_rings >= 1 and n_segments >= 1 never stores      *)
(* outside the buffer, and once the loops are over t_idx equals            *)
(* num_triangles = n_segments*4*n_rings + n_segments: n_segments fan       *)
(* triangles (those at the centre point) and 4*n_rings*n_segments ring     *)
(* triangles, every slot of the buffer written, the same count saved.      *)
(***************************************************************************)
C15_RadialTriangleCount ==
    prog = "radial2" =>
        /\ err # "IndexError"
        /\ pc \in {"save", "report", "done"} =>
              LET fan == {k \in DOMAIN triangles : center \in VertexSet(triangles[k])}
              IN  /\ n_rings >= 1 /\ n_segments >= 1
                  /\ t_idx = num_triangles
                  /\ num_triangles = n_segments * 4 * n_rings + n_segments
                  /\ DOMAIN triangles = 0..(num_triangles - 1)
                  /\ \A k \in DOMAIN triangles : triangles[k] # ZeroRadialTriangle
                  /\ fan = 0..(n_segments - 1)
                  /\ Cardinality(DOMAIN triangles \ fan) = 4 * n_rings * n_segments
        /\ pc = "done" => stl_file.written /\ stl_file.count = t_idx

C15_Witness ==
    /\ RadialDone
    /\ n_rings = 3 /\ n_segments = 4
    /\ t_idx = 52 /\ num_triangles = 52

(***************************************************************************)
(* C16. radial2.py: every vertex emitted has radius at most diameter/2,    *)
(* and the outer radius of the outermost ring is diameter/2, which is      *)
(* ring_width * n_rings.                                                   *)
(***************************************************************************)
C16_RadiiWithinAperture ==
    RadialDone =>
        /\ RMul(ring_width, RNum(n_rings)) = RDiv(diameter, RNum(2))
        /\ \A k \in DOMAIN PolarTriangles : \A c \in 1..3 :
              RLe(VertexRadius(PolarTriangles[k][c]), RDiv(diameter, RNum(2)))
        /\ \A ss \in 0..(n_segments - 1) :
              VertexRadius(RingTriangle(n_rings - 1, ss, 0)[3])
                  = RDiv(diameter, RNum(2))

(***************************************************************************)
(* C17. radial2.py: for every top-surface triangle (each fan triangle and  *)
(* both top triangles of each ring segment) the finished mesh holds        *)
(* another triangle on the back plane z = 0 over the same (x, y) corners.  *)
(***************************************************************************)
HasBackTriangle(k) ==
    \E b \in DOMAIN triangles :
        /\ b # k
        /\ OnBackPlane(triangles[b])
        /\ Footprint(triangles[b]) = Footprint(triangles[k])

C17_BackFacePresent ==
    RadialDone =>
        /\ \A ss \in 0..(n_segments - 1) : HasBackTriangle(ss)
        /\ \A rr \in 0..(n_rings - 1) : \A ss \in 0..(n_segments - 1) :
              \A k \in {0, 1} :
                  HasBackTriangle(n_segments + 4 * (rr * n_segments + ss) + k)

(***************************************************************************)
(* C18. radial2.py: the vertical wall triangles of the finished mesh lie   *)
(* on the outer boundary only (every corner at radius diameter/2), one     *)
(* quad, i.e. two triangles, per angular segment.                          *)
(***************************************************************************)
C18_WallsOnlyAtRim ==
    RadialDone =>
        LET walls == {k \in DOMAIN triangles : IsVertical(triangles[k])}
        IN  /\ \A k \in walls : \A c \in 1..3 :
                  VertexRadius(triangles[k][c]) = RDiv(diameter, RNum(2))
            /\ Cardinality(walls) = 2 * n_segments

(***************************************************************************)
(* C19. radial2.py: the last segment closes the fan and every ring: the    *)
(* trailing vertex of segment n_segments - 1 is the very vertex (position  *)
(* and height) that leads segment 0.                                       *)
(***************************************************************************)
C19_AngularIndexCyclic ==
    RadialDone =>
        LET last == n_segments - 1
        IN  /\ FanTriangle(last)[3] = FanTriangle(0)[2]
            /\ \A rr \in 0..(n_rings - 1) :
                  /\ RingTriangle(rr, last, 0)[2] = RingTriangle(rr, 0, 0)[1]
                  /\ RingTriangle(rr, last, 1)[2] = RingTriangle(rr, 0, 0)[3]

(***************************************************************************)
(* C20. radial2.py and octagonal_ring.py: no triangle of the finished mesh *)
(* has two of its corners at the same position, and the vertices at the    *)
(* origin are one sample (it is appended once in octagonal_ring.py).       *)
(***************************************************************************)
AtOrigin(v) == v[1] = Exact(RZero) /\ v[2] = Exact(RZero)

C20_NoCoincidentSamples ==
    (prog \in {"radial2", "octagonal_ring"} /\ pc = "done") =>
        /\ \A k \in DOMAIN PolarTriangles :
              Cardinality(VertexSet(PolarTriangles[k])) = 3
        /\ prog = "octagonal_ring" =>
              Cardinality({k \in DOMAIN vertices : AtOrigin(vertices[k])}) <= 1

(***************************************************************************)
(* C22. prism2volume.py, once the height field is computed: the top height *)
(* of a sample depends only on x^2 + y^2.  Any two samples with equal      *)
(* squared radius have equal top height; in particular height(j, i) =      *)
(* height(d-j, i) = height(j, d-i), and when width = height also           *)
(* height(j, i) = height(i, j).                                            *)
(***************************************************************************)
HeightsComputed ==
    prog = "prism2volume" /\ pc \notin {"validate", "grid", "height", "error"}

SquaredRadius(jj, ii) ==
    RAdd(RMul(x_coords[ii], x_coords[ii]), RMul(y_coords[jj], y_coords[jj]))

BufferProgs == {"prism2volume", "radial2", "prism1"}

\* Every parameter but focal_length passes the program's validation.
ValidButFocal ==
    /\ RLt(RNum(1), refractive_index)
    /\ prog = "prism2volume" =>
          /\ n_prisms > 0 /\ RLt(RZero, width) /\ RLt(RZero, height)
          /\ RLt(RZero, groove_depth) /\ RLt(RZero, thickness)
    /\ prog = "radial2" =>
          /\ n_rings > 0 /\ n_segments > 0
          /\ RLt(RZero, diameter) /\ RLt(RZero, max_depth)
    /\ prog = "prism1" =>
          /\ n_prisms > 0 /\ RLt(RZero, width) /\ RLt(RZero, height)

\* The run has saved a buffer filled up to its pre-computed size.
FullMeshSaved ==
    /\ num_triangles > 0
    /\ t_idx = num_triangles
    /\ stl_file.written
    /\ stl_file.count = num_triangles
    /\ stl_file.vectors = triangles

C21_NegativeFocalAccepted ==
    (prog \in BufferProgs /\ RLt(focal_length, RZero) /\ ValidButFocal) =>
        /\ pc # "error"
        /\ pc = "done" => FullMeshSaved

(***************************************************************************)
(* C24. In prism1.py, prism2volume.py and radial2.py the triangle buffer   *)
(* is filled through the running index: always 0 <= t_idx <=               *)
(* num_triangles = the buffer's size; slots 0..t_idx-1 hold the triangles  *)
(* emitted so far and the slots from t_idx on are still all-zero; a step   *)
(* never moves t_idx back, never rewrites a slot below t_idx and changes   *)
(* only the slots t_idx..t_idx'-1, so every slot is written once, in       *)
(* emission order; no store is out of range; and the buffer is handed to   *)
(* the mesh writer only when t_idx = num_triangles.                        *)
(***************************************************************************)
UnwrittenTriangle == IF prog = "radial2" THEN ZeroRadialTriangle ELSE ZeroTriangle

BufferState ==
    prog \in BufferProgs =>
        /\ DOMAIN triangles = 0..(num_triangles - 1)
        /\ 0 <= t_idx /\ t_idx <= num_triangles
        /\ \A k \in 0..(t_idx - 1) : triangles[k] # UnwrittenTriangle
        /\ \A k \in t_idx..(num_triangles - 1) : triangles[k] = UnwrittenTriangle
        /\ err # "IndexError"
        /\ stl_file.written =>
              /\ t_idx = num_triangles
              /\ stl_file.count = num_triangles
              /\ stl_file.vectors = triangles

BufferStep ==
    prog \in BufferProgs =>
        /\ t_idx' >= t_idx
        /\ \A k \in 0..(t_idx - 1) : triangles'[k] = triangles[k]
        /\ t_idx' > t_idx =>
              /\ DOMAIN triangles' = DOMAIN triangles
              /\ \A k \in t_idx'..(num_triangles - 1) : triangles'[k] = triangles[k]
              /\ \A k \in t_idx..(t_idx' - 1) : triangles'[k] # triangles[k]
        /\ stl_file' # stl_file => t_idx = num_triangles /\ triangles' = triangles

C24_BufferDiscipline == []BufferState /\ [][BufferStep]_vars

\* prism1.py in the middle of its loops: the first prism's four triangles are
\* stored, the rest of the buffer is untouched.
C24_Witness ==
    /\ prog = "prism1" /\ pc = "prisms"
    /\ n_prisms = 2 /\ i = 0 /\ j = 1
    /\ t_idx = 4 /\ num_triangles = 16
    /\ triangles[3] # ZeroTriangle /\ triangles[4] = ZeroTriangle

(***************************************************************************)
(* C25. solid_prism.py, once the mesh is allocated (n_prisms >= 1): the    *)
(* six indices computed for each facet (i, j, k) lie inside the buffer     *)
(* 0 .. n_prisms^2 * n_facets * 6 - 1, no two writes of the whole run      *)
(* target the same index, and after the loops every slot of the buffer has *)
(* been written, so the saved file has no overwritten and no all-zero      *)
(* triangle.                                                               *)
(***************************************************************************)
\* Every write of a run: facet (i, j, k) and the position 1..6 of the
\* assignment among the six of the facet.
SolidWrites ==
    (0..(n_prisms - 1)) \X (0..(n_prisms - 1)) \X (0..(n_facets - 1)) \X (1..6)

SolidSlot(w) == FacetSlots(w[1], w[2], w[3])[w[4]]

C25_IndexBijection ==
    (prog = "solid_prism" /\ pc \in {"prisms", "save", "done"} /\ n_prisms >= 1) =>
        /\ DOMAIN mesh = 0..(n_prisms * n_prisms * n_facets * 6 - 1)
        /\ \A w \in SolidWrites : SolidSlot(w) \in DOMAIN mesh
        /\ \A w1 \in SolidWrites : \A w2 \in SolidWrites :
              SolidSlot(w1) = SolidSlot(w2) => w1 = w2
        /\ pc \in {"save", "done"} =>
              \A k \in DOMAIN mesh : mesh[k] # ZeroSolidTriangle
        /\ pc = "done" =>
              /\ stl_file.written
              /\ \A k \in DOMAIN mesh : stl_file.vectors[k] # ZeroSolidTriangle

(***************************************************************************)
(* C26. prism2.py, once the vertex and the face arrays are built           *)
(* (num_prisms >= 1): every vertex index stored in a face is an index of   *)
(* the vertex array along the axis that the fill loop indexes, and the     *)
(* fill loop never ends in an out-of-bounds read.                          *)
(***************************************************************************)
C26_FaceIndicesInBounds ==
    (prog = "prism2" /\ pc \in {"fill", "save", "done", "error"}
        /\ num_prisms >= 1) =>
        /\ \A k \in DOMAIN prism_faces : \A n \in DOMAIN prism_faces[k] :
              prism_faces[k][n] \in 0..(Size(prism_vertices) - 1)
        /\ err # "IndexError"

=============================================================================
